---------------------------- MODULE Spec2Model ----------------------------
(***************************************************************************)
(* A model of the emotion_mvp inference service ("Year 2 Block D"):        *)
(*   - the Plan Policy gate            (api/plan_gate.py: RULES, enforce)  *)
(*   - the two remote classifier adapters (classifier.py)                  *)
(*   - the translator                  (translator.py)                     *)
(*   - the orchestrator                (pipeline.py: predict_any)          *)
(*   - the inference history           (history.py: log_inference)         *)
(*   - the entry points                (api/main.py, cli.py)               *)
(* and of the OT-2 gym environment of "Year 2 Block B"                     *)
(*   (datalab_tasks/task10/ot2_gym_wrapper.py: OT2Env).                    *)
(*                                                                         *)
(* Strings the program parses are modelled as sequences of tokens; Python  *)
(* None is the record None below; a float score is kept in hundredths.     *)
(***************************************************************************)
EXTENDS Integers, Sequences, FiniteSets, TLC

VARIABLES
    \* ---- predict_any (pipeline.py), one request ----
    pc,         \* position of predict_any: "start", "classify", "summary", "done", "aborted"
    args,       \* the keyword arguments predict_any was called with
    src_lang,   \* pipeline.py local src_lang
    segments,   \* pipeline.py local segments
    idx,        \* number of segments the loop has finished
    use_bert,   \* pipeline.py local use_bert (the sticky-fallback flag)
    csv,        \* the rows written to csv_path so far (header first)
    calls,      \* the adapter calls made so far, in order
    cache,      \* translator._CACHE: the checkpoints loaded
    summary,    \* the value predict_any returned (NoSummary before)
    \* ---- the adapters, called on their own ----
    ad_in,      \* the input of the adapter call
    ad_out,     \* its outcome
    \* ---- enforce (plan_gate.py) ----
    g_plan,     \* the plan of the request
    g_payload,  \* the payload handed to enforce
    g_out,      \* the outcome of enforce
    \* ---- log_inference (history.py) ----
    hist,       \* the history file: whether it exists, and its rows
    logged,     \* the calls of log_inference that have returned, in order
    writers,    \* the calls of log_inference that run at the same time
    \* ---- the helpers of pipeline.py, called on their own ----
    fn_in,      \* the helper and its argument
    fn_out,     \* its result
    \* ---- predict_any, two requests served by one process ----
    environ,    \* os.environ["WHISPER_MODEL"]
    files,      \* the artifacts under TRANSCRIPT_DIR, by the stem of their name
    reqs,       \* the two requests: arguments, position, locals
    \* ---- predict_any run twice on the same segments ----
    stubs,      \* what the translator and the two backends did for each segment
    prev,       \* the artifact and the adapter calls of the first run
    \* ---- OT2Env (ot2_gym_wrapper.py) ----
    max_steps,      \* self.max_steps
    steps,          \* self.steps
    goal_position,  \* self.goal_position: "None" or "sampled"
    step_out        \* what the last call of step returned (NoStep after reset)

pipeVars == <<pc, args, src_lang, segments, idx, use_bert, csv, calls, cache, summary>>
adVars   == <<ad_in, ad_out>>
gateVars == <<g_plan, g_payload, g_out>>
logVars  == <<hist, logged, writers>>
fnVars   == <<fn_in, fn_out>>
reqVars  == <<environ, files, reqs>>
runVars  == <<stubs, prev>>
envVars  == <<max_steps, steps, goal_position, step_out>>
vars     == <<pipeVars, adVars, gateVars, logVars, fnVars, reqVars, runVars, envVars>>

-----------------------------------------------------------------------------
(* Bounds of the model                                                      *)

\* the most segments a request is normalised into
MaxSegs == 3
\* the number of configured LLAMA_FALLBACK_MODELS
NumFallbacks == 2
\* the most tokens of a chat reply
MaxReplyLen == 4
\* the most calls of log_inference made one after the other
MaxLogCalls == 3
\* the most characters of a file reference
MaxNameLen == 3
\* the most characters of a text file
MaxFileLen == 5
\* the longest episode an OT2Env is built for (max_steps)
MaxEpisode == 9

-----------------------------------------------------------------------------
(* Python values                                                            *)

\* None, as the optional float of an adapter result
None == [some |-> FALSE, v |-> 0]
Some(x) == [some |-> TRUE, v |-> x]

-----------------------------------------------------------------------------
(* emotion_tiers.py                                                         *)

BASIC_LABELS == {"happy", "sad", "mad", "scared", "surprised", "disgusted", "neutral"}

PLUS_LABELS ==
    {"excitement", "confusion", "surprise", "neutral", "optimism", "pride",
     "curiosity", "fear", "amusement", "joy", "desire", "annoyance",
     "nervousness", "gratitude", "approval", "realization", "disappointment",
     "caring", "sadness", "admiration", "disapproval", "anger", "remorse"}

PRO_LABELS == PLUS_LABELS \cup {"relief", "love", "disgust", "embarrassment"}

EMOTION_TIERS == [basic |-> BASIC_LABELS, plus |-> PLUS_LABELS, pro |-> PRO_LABELS]

\* classifier.py: tier = "pro" if do_intensity else ("plus" if classify_ext else "basic")
TierOf(classify_ext, do_intensity) ==
    IF do_intensity THEN "pro" ELSE IF classify_ext THEN "plus" ELSE "basic"

-----------------------------------------------------------------------------
(* classifier.py: Adapter A (chat backend)                                  *)

\* The tokens a chat reply is made of.  "42" starts with no letter.
ReplyTokens ==
    {"Answer:", "Intensity:", "Joy", "happy", "love", "bogus", "STRONG", "42"}

\* str.lower() on a token
Lower(t) ==
    CASE t = "Answer:"    -> "answer:"
      [] t = "Intensity:" -> "intensity:"
      [] t = "Joy"        -> "joy"
      [] t = "STRONG"     -> "strong"
      [] t = "Mild"       -> "mild"
      [] t = "MODERATE"   -> "moderate"
      [] OTHER            -> t

\* the run of letters a token starts with, lowercased ("" when it starts with none):
\* what ([a-z]+) under re.IGNORECASE captures at the start of the token
Letters(t) ==
    CASE t = "Answer:"    -> "answer"
      [] t = "Intensity:" -> "intensity"
      [] t = "42"         -> ""
      [] OTHER            -> Lower(t)

\* text.strip().lower() of a reply: its tokens joined by single blanks
RECURSIVE JoinLower(_)
JoinLower(toks) ==
    IF Len(toks) = 0 THEN ""
    ELSE IF Len(toks) = 1 THEN Lower(toks[1])
    ELSE Lower(toks[1]) \o " " \o JoinLower(Tail(toks))

\* re.search(key + r"\s*([a-z]+)", text, re.IGNORECASE): the positions where the
\* keyword is followed by a token that starts with a letter
MatchAt(toks, key) ==
    {i \in 1..(Len(toks) - 1) : Lower(toks[i]) = key /\ Letters(toks[i + 1]) /= ""}

Min(S) == CHOOSE x \in S : \A y \in S : x <= y

\* the group(1) of the first match, lowercased
FirstGroup(toks, key) == Letters(toks[Min(MatchAt(toks, key)) + 1])

\* _extract_emotion
ExtractEmotion(toks) ==
    IF MatchAt(toks, "answer:") /= {} THEN FirstGroup(toks, "answer:")
    ELSE JoinLower(toks)

\* an ordinal table that takes a word it does not hold for a middling one
IntensityOfUnknownMid(word) ==
    CASE word = "neutral"  -> 0
      [] word = "mild"     -> 25
      [] word = "moderate" -> 50
      [] word = "strong"   -> 75
      [] word = "intense"  -> 100
      [] OTHER             -> 50

\* an ordinal table that puts "strong" at 0.9
IntensityOfStrongHigh(word) ==
    CASE word = "neutral"  -> 0
      [] word = "mild"     -> 25
      [] word = "moderate" -> 50
      [] word = "strong"   -> 90
      [] word = "intense"  -> 100
      [] OTHER             -> 0

\* the ordinal table of predict_emotion_llama, in hundredths; mapping.get(w, 0.0)
IntensityOf(word) ==
    CASE word = "neutral"  -> 0
      [] word = "mild"     -> 25
      [] word = "moderate" -> 50
      [] word = "strong"   -> 75
      [] word = "intense"  -> 100
      [] OTHER             -> 0

\* the outcome of one requests.post to one model: Fail (any exception in the try
\* block) or the content of the reply
Fail == <<"<exception>">>

\* the models _call_llama tries: [LLAMA_MODEL_ID] + LLAMA_FALLBACK_MODELS
Models == 1..(1 + NumFallbacks)

\* _call_llama: outs[m] is what model m answers when it is asked.  The result holds
\* the models asked, in order, and the reply returned (raised: RuntimeError)
RECURSIVE CallLlamaFrom(_, _, _)
CallLlamaFrom(outs, m, tried) ==
    IF m > Len(outs) THEN [raised |-> TRUE, reply |-> <<>>, tried |-> tried]
    ELSE IF outs[m] /= Fail
         THEN [raised |-> FALSE, reply |-> outs[m], tried |-> Append(tried, m)]
         ELSE CallLlamaFrom(outs, m + 1, Append(tried, m))

\* a _call_llama that goes on to the next model after a reply as well, and so
\* returns the last reply
RECURSIVE CallLlamaLastFrom(_, _, _, _)
CallLlamaLastFrom(outs, m, tried, last) ==
    IF m > Len(outs)
    THEN [raised |-> last = Fail, reply |-> IF last = Fail THEN <<>> ELSE last,
          tried |-> tried]
    ELSE CallLlamaLastFrom(outs, m + 1, Append(tried, m),
                           IF outs[m] /= Fail THEN outs[m] ELSE last)

CallLlamaNoBreak(outs) == CallLlamaLastFrom(outs, 1, <<>>, Fail)

CallLlama(outs) == CallLlamaFrom(outs, 1, <<>>)

\* the parsed label kept whatever the tier allows
CoerceLabelNever(emo, allowed) == emo

\* the label predict_emotion_llama keeps: the parsed one if the tier allows it
CoerceLabel(emo, allowed) == IF emo \notin allowed THEN "neutral" ELSE emo

\* predict_emotion_llama(sentence, classify_ext, do_intensity)
PredictEmotionLlama(outs, classify_ext, do_intensity) ==
    LET allowed == EMOTION_TIERS[TierOf(classify_ext, do_intensity)]
        r       == CallLlama(outs)
        emo     == CoerceLabel(ExtractEmotion(r.reply), allowed)
        inten   == IF do_intensity /\ MatchAt(r.reply, "intensity:") /= {}
                   THEN Some(IntensityOf(FirstGroup(r.reply, "intensity:")))
                   ELSE None
    IN  IF r.raised
        THEN [raised |-> TRUE, emo |-> "", intensity |-> None, tried |-> r.tried]
        ELSE [raised |-> FALSE, emo |-> emo, intensity |-> inten, tried |-> r.tried]

-----------------------------------------------------------------------------
(* classifier.py: Adapter B (scoring endpoint)                              *)

\* _LABEL_MAP, class index 0..27 (entry i + 1 is the label of index i)
LABEL_MAP ==
    <<"admiration", "amusement", "anger", "annoyance", "approval", "caring",
      "confusion", "curiosity", "desire", "disappointment", "disapproval",
      "disgust", "embarrassment", "excitement", "fear", "gratitude", "grief",
      "joy", "love", "nervousness", "optimism", "pride", "realization",
      "relief", "remorse", "sadness", "surprise", "neutral">>

\* _LABEL_MAP.get(idx, "nan")
LabelOfIndex(i) == IF i \in 0..(Len(LABEL_MAP) - 1) THEN LABEL_MAP[i + 1] ELSE "nan"

\* _BASIC_MAP.get(label, "neutral")
BasicOf(label) ==
    CASE label \in {"admiration", "amusement", "approval", "caring", "desire",
                    "excitement", "gratitude", "joy", "love", "optimism",
                    "pride", "relief"}                        -> "happy"
      [] label \in {"anger", "annoyance", "disapproval"}      -> "mad"
      [] label \in {"confusion", "curiosity", "neutral"}      -> "neutral"
      [] label \in {"disappointment", "embarrassment", "grief",
                    "remorse", "sadness"}                      -> "sad"
      [] label = "disgust"                                     -> "disgust"
      [] label \in {"fear", "nervousness"}                    -> "scared"
      [] label \in {"realization", "surprise"}                -> "surprised"
      [] OTHER                                                 -> "neutral"

\* A JSON value of the reply's "predictions" / "prediction" field:
\*   none (the key is missing or null), int n, numstr (the string of the number n),
\*   badstr (a string that is no number), emptylist, and a list whose first item is
\*   an int, a numeric string or something int() refuses
JVal(t, n) == [t |-> t, n |-> n]
JNone == JVal("none", 0)

\* the class indices the endpoint may send: every class, and two that are none
Indices == (-1)..Len(LABEL_MAP)

JVals ==
    {JNone, JVal("badstr", 0), JVal("emptylist", 0), JVal("list_bad", 0)}
    \cup {JVal(t, n) : t \in {"int", "numstr", "list_int", "list_numstr"}, n \in Indices}

\* Python truth of a JSON value (as `or` tests it)
Truthy(v) ==
    CASE v.t \in {"none", "emptylist"} -> FALSE
      [] v.t = "int"                   -> v.n /= 0
      [] OTHER                         -> TRUE

\* whether int(preds[0]) / int(preds) raises, and its value when it does not
IntRaises(v) == v.t \in {"none", "badstr", "emptylist", "list_bad"}

\* the outcomes of the scoring call:
\*   neterr  - _BERT_SESSION.post raises (connection error, timeout, retries spent)
\*   http    - raise_for_status raises
\*   badjson - resp.json() raises
\*   strbad  - the body is a JSON string that json.loads refuses
\*   nondict - the body is JSON but no object (result.get raises)
\*   dict    - the body is an object (strdict: a JSON string holding one)
BertFailures ==
    {[kind |-> k, predictions |-> JNone, prediction |-> JNone] :
        k \in {"neterr", "http", "badjson", "strbad", "nondict"}}

BertBodies(predictionsSet, predictionSet) ==
    {[kind |-> k, predictions |-> a, prediction |-> b] :
        k \in {"dict", "strdict"}, a \in predictionsSet, b \in predictionSet}

\* preds = result.get("predictions") or result.get("prediction")
PredsOf(resp) == IF Truthy(resp.predictions) THEN resp.predictions ELSE resp.prediction

\* the label after the tier's collapse (classifier.py 404-406)
CollapseLabel(label, classify_ext, do_intensity) ==
    IF ~classify_ext /\ ~do_intensity THEN BasicOf(label) ELSE label

\* predict_emotion_bert(sentence, classify_ext, do_intensity)
PredictEmotionBert(resp, classify_ext, do_intensity) ==
    IF resp.kind \notin {"dict", "strdict"} \/ IntRaises(PredsOf(resp))
    THEN [raised |-> FALSE, emo |-> "nan", intensity |-> None]
    ELSE [raised |-> FALSE,
          emo |-> CollapseLabel(LabelOfIndex(PredsOf(resp).n), classify_ext, do_intensity),
          intensity |-> None]

-----------------------------------------------------------------------------
(* The adapters called on their own: the input is drawn, the function applied *)

\* every reply of at most MaxReplyLen tokens
Replies == UNION {[1..n -> ReplyTokens] : n \in 1..MaxReplyLen}

\* what may follow "Intensity:" in a reply: the five words of the ordinal table in
\* some case, two words the table does not hold, and a number
IntensityWords ==
    {"neutral", "Mild", "MODERATE", "STRONG", "intense", "bogus", "happy", "42"}

\* replies that rate the intensity, once or twice
IntensityReplies ==
    {<<"Answer:", "Joy", "Intensity:", w>> : w \in IntensityWords}
    \cup {<<"Intensity:", w, "Intensity:", v>> : w, v \in IntensityWords}

\* two replies _call_llama hands back unread
PlainReplies == {<<"Answer:", "Joy">>, <<"bogus">>}

\* the first k models fail, the others would answer reply
FailsThen(k, reply) == [m \in Models |-> IF m <= k THEN Fail ELSE reply]

AllFail == [m \in Models |-> Fail]

Flags2 == {<<e, i>> : e \in BOOLEAN, i \in BOOLEAN}

NoResp == [kind |-> "neterr", predictions |-> JNone, prediction |-> JNone]
NoOut  == [raised |-> FALSE, emo |-> "", intensity |-> None, tried |-> <<>>,
           reply |-> <<>>]
AdIn(fn, outs, resp, f) ==
    [fn |-> fn, outs |-> outs, resp |-> resp, classify_ext |-> f[1], do_intensity |-> f[2]]

\* what _call_llama is given: an outcome for every configured model
CallLlamaInputs ==
    {AdIn("_call_llama", outs, NoResp, <<FALSE, FALSE>>) :
        outs \in [Models -> PlainReplies \cup {Fail}]}

\* what predict_emotion_llama is given: every reply from the primary model, and a
\* reply reached after k failures
LlamaInputs ==
    {AdIn("llama", FailsThen(0, r), NoResp, f) :
        r \in Replies \cup IntensityReplies, f \in Flags2}
    \cup {AdIn("llama", FailsThen(k, r), NoResp, f) :
            k \in 0..(1 + NumFallbacks), r \in PlainReplies, f \in Flags2}

\* what predict_emotion_bert is given: every outcome of the scoring call
BertInputs ==
    {AdIn("bert", AllFail, r, f) :
        r \in BertFailures
              \cup BertBodies(JVals, {JNone, JVal("int", 17), JVal("list_int", 2),
                                      JVal("badstr", 0)}),
        f \in Flags2}

AdInit ==
    /\ ad_in \in CallLlamaInputs \cup LlamaInputs \cup BertInputs
    /\ ad_out = [done |-> FALSE, r |-> NoOut]

\* _call_llama(messages)
DoCallLlama ==
    /\ ~ad_out.done /\ ad_in.fn = "_call_llama"
    /\ LET r == CallLlama(ad_in.outs)
       IN  ad_out' = [done |-> TRUE,
                      r |-> [NoOut EXCEPT !.raised = r.raised, !.reply = r.reply,
                                          !.tried = r.tried]]
    /\ UNCHANGED ad_in

\* predict_emotion_llama(sentence, classify_ext, do_intensity)
DoPredictLlama ==
    /\ ~ad_out.done /\ ad_in.fn = "llama"
    /\ LET r == PredictEmotionLlama(ad_in.outs, ad_in.classify_ext, ad_in.do_intensity)
       IN  ad_out' = [done |-> TRUE,
                      r |-> [NoOut EXCEPT !.raised = r.raised, !.emo = r.emo,
                                          !.intensity = r.intensity, !.tried = r.tried]]
    /\ UNCHANGED ad_in

\* predict_emotion_bert(sentence, classify_ext, do_intensity)
DoPredictBert ==
    /\ ~ad_out.done /\ ad_in.fn = "bert"
    /\ LET r == PredictEmotionBert(ad_in.resp, ad_in.classify_ext, ad_in.do_intensity)
       IN  ad_out' = [done |-> TRUE,
                      r |-> [NoOut EXCEPT !.raised = r.raised, !.emo = r.emo,
                                          !.intensity = r.intensity]]
    /\ UNCHANGED ad_in

-----------------------------------------------------------------------------
(* api/plan_gate.py                                                         *)

Plans == {"basic", "plus", "pro"}

RULES ==
    [basic |-> [max_seconds |-> 10 * 60, model |-> "tiny", translate |-> TRUE,
                classify |-> TRUE, classify_ext |-> FALSE, intensity |-> FALSE],
     plus  |-> [max_seconds |-> 45 * 60, model |-> "medium", translate |-> TRUE,
                classify |-> TRUE, classify_ext |-> TRUE, intensity |-> FALSE],
     pro   |-> [max_seconds |-> 4 * 60 * 60, model |-> "turbo", translate |-> TRUE,
                classify |-> TRUE, classify_ext |-> TRUE, intensity |-> TRUE]]

\* the keys enforce pops without reading them
ClientToggles == {"translate", "classify", "classify_ext", "intensity"}

\* a dict is a function from its keys; dict.pop(k, None) for every k of K
PopKeys(d, K) == [k \in (DOMAIN d) \ K |-> d[k]]

\* dict.update(u)
Update(d, u) == [k \in (DOMAIN d) \cup (DOMAIN u) |-> IF k \in DOMAIN u THEN u[k] ELSE d[k]]

\* str.lower() on a classifier name
LowerName(c) == CASE c = "LLAMA" -> "llama" [] c = "Bert" -> "bert" [] OTHER -> c

\* the cap test with >= for >
OverCapInclusive(d, rule) ==
    "duration_sec" \in DOMAIN d /\ d["duration_sec"] >= rule.max_seconds

\* duration is not None and duration > rule["max_seconds"]
OverCap(d, rule) ==
    "duration_sec" \in DOMAIN d /\ d["duration_sec"] > rule.max_seconds

\* flags that let the client's "intensity" toggle through
PlanFlagsTrusting(rule, d) ==
    [model |-> rule.model, do_translate |-> rule.translate,
     do_classify |-> rule.classify, do_classify_ext |-> rule.classify_ext,
     do_intensity |-> IF "intensity" \in DOMAIN d THEN d["intensity"]
                      ELSE rule.intensity]

\* the flags enforce writes: the plan's rule, whatever the payload d holds
PlanFlags(rule, d) ==
    [model |-> rule.model, do_translate |-> rule.translate,
     do_classify |-> rule.classify, do_classify_ext |-> rule.classify_ext,
     do_intensity |-> rule.intensity]

\* enforce(payload, plan): status "quota" is the HTTPException(403) with its detail
\* "<Plan> plan limited to <minutes>-minute audio"
Enforce(payload, plan) ==
    LET rule   == RULES[plan]
        p1     == PopKeys(payload, ClientToggles)
        choice == IF "classifier" \in DOMAIN p1 THEN p1["classifier"] ELSE "llama"
        p2     == PopKeys(p1, {"classifier"})
        flags  == PlanFlags(rule, payload)
        new    == [k \in {"inp", "model", "do_translate", "do_classify",
                          "do_classify_ext", "do_intensity", "classifier_model"} |->
                     CASE k = "inp"              -> p2["src"]
                       [] k = "classifier_model" -> LowerName(choice)
                       [] OTHER                  -> flags[k]]
    IN  IF OverCap(p2, rule)
        THEN [status |-> "quota", plan |-> plan, minutes |-> rule.max_seconds \div 60,
              payload |-> p2]
        ELSE [status |-> "ok", plan |-> plan, minutes |-> 0,
              payload |-> Update(PopKeys(p2, {"src"}), new)]

\* ---- the payloads a caller may hand to enforce ----
Opt(S) == {[has |-> FALSE, v |-> x] : x \in {CHOOSE y \in S : TRUE}}
          \cup {[has |-> TRUE, v |-> x] : x \in S}

\* the durations around every plan's cap
Durations ==
    {0} \cup UNION {{RULES[p].max_seconds - 1, RULES[p].max_seconds,
                     RULES[p].max_seconds + 1} : p \in Plans}

\* the dict with "src" and the optional keys that are present
MkPayload(t, c, ce, i, cl, d, di) ==
    LET opt == [translate |-> t, classify |-> c, classify_ext |-> ce, intensity |-> i,
                classifier |-> cl, duration_sec |-> d, do_intensity |-> di]
        keys == {"src"} \cup {k \in DOMAIN opt : opt[k].has}
    IN  [k \in keys |-> IF k = "src" THEN "clip.wav" ELSE opt[k].v]

Payloads ==
    {MkPayload(t, c, ce, i, cl, d, di) :
        t \in Opt(BOOLEAN), c \in Opt(BOOLEAN), ce \in Opt(BOOLEAN), i \in Opt(BOOLEAN),
        cl \in Opt({"bert", "LLAMA"}), d \in Opt(Durations), di \in Opt({TRUE})}

GateInit ==
    /\ g_plan \in Plans
    /\ g_payload \in Payloads
    /\ g_out = [status |-> "pending", plan |-> g_plan, minutes |-> 0,
                payload |-> g_payload]

\* the caller runs enforce(payload, plan)
DoEnforce ==
    /\ g_out.status = "pending"
    /\ g_out' = Enforce(g_payload, g_plan)
    /\ UNCHANGED <<g_plan, g_payload>>

-----------------------------------------------------------------------------
(* history.py: log_inference                                                *)

_HEADERS == <<"timestamp", "input", "language", "translated", "emotion", "csv">>

\* dict.get(k, default)
Get(d, k, default) == IF k \in DOMAIN d THEN d[k] ELSE default

\* the row of a call (history.py 89-101); now is the clock's reading
HistRow(user_input, s, now) ==
    <<Get(s, "timestamp", now), user_input, Get(s, "language", ""),
      Get(s, "translated", ""), Get(s, "emotion", ""), Get(s, "csv", "")>>

\* the history file when it does not exist, and when it exists with no content
NoFile == [exists |-> FALSE, rows |-> <<>>]
EmptyFile == [exists |-> TRUE, rows |-> <<>>]

\* first = not fp.exists() or fp.stat().st_size == 0 (history.py 81)
IsFirst(file) == ~file.exists \/ file.rows = <<>>

\* what the writer holds before the row: the header when first (history.py 85-87)
HeaderIf(first) == IF first THEN <<_HEADERS>> ELSE <<>>

\* a file opened with "w": what was there is lost
WriteLines(file, lines) == [exists |-> TRUE, rows |-> lines]

\* a file opened with "a" (history.py 83): it is created when missing and every
\* write lands at its end
AppendLines(file, lines) == [exists |-> TRUE, rows |-> file.rows \o lines]

\* log_inference(user_input, summary) run with nothing else touching the file
LogInference(file, user_input, s, now) ==
    AppendLines(file, HeaderIf(IsFirst(file)) \o <<HistRow(user_input, s, now)>>)

\* ---- the calls made ----
LogInputs == {"first", "second"}

\* summaries with every key, with some keys, with none
Summaries ==
    {[timestamp |-> "T0", language |-> "en", translated |-> "hello",
      emotion |-> "happy", csv |-> "row1"],
     [emotion |-> "sad"],
     <<>>}

Clock == {"T1", "T2"}

LogCall(user_input, s, now) == [input |-> user_input, summary |-> s, now |-> now]

Writers == {1, 2}

NoWriters == [w \in Writers |-> [pc |-> "none"]]

\* a process starts with the history file missing or empty and no call made
LogInit ==
    /\ hist \in {NoFile, EmptyFile}
    /\ logged = <<>>
    /\ writers = NoWriters

\* one call of log_inference, from entry to return
DoLogInference ==
    /\ Len(logged) < MaxLogCalls
    /\ \E u \in LogInputs, s \in Summaries, now \in Clock :
         /\ hist' = LogInference(hist, u, s, now)
         /\ logged' = Append(logged, LogCall(u, s, now))
    /\ UNCHANGED writers

\* ---- two calls at the same time (two requests, threads or processes, that
\* finish together); each call is the steps of history.py 81-103 ----
WriterAt(w, s) ==
    [pc |-> "call", first |-> FALSE, buf |-> <<>>,
     call |-> LogCall(IF w = 1 THEN "first" ELSE "second", s, "T2")]

\* the file is missing, empty, or holds the header and the row of an earlier call
LogRaceInit ==
    /\ logged \in {<<>>, <<LogCall("first", <<>>, "T1")>>}
    /\ hist \in (IF logged = <<>> THEN {NoFile, EmptyFile}
                 ELSE {LogInference(NoFile, "first", <<>>, "T1")})
    /\ writers \in {[w \in Writers |-> WriterAt(w, ss[w])] : ss \in [Writers -> Summaries]}

\* history.py 81: the call looks at the file
LogCheck(w) ==
    /\ writers[w].pc = "call"
    /\ writers' = [writers EXCEPT ![w].pc = "checked", ![w].first = IsFirst(hist)]
    /\ UNCHANGED <<hist, logged>>

\* history.py 83-87: the file is opened for appending and the header, when first,
\* goes into the writer's buffer
LogOpen(w) ==
    /\ writers[w].pc = "checked"
    /\ hist' = AppendLines(hist, <<>>)
    /\ writers' = [writers EXCEPT ![w].pc = "open",
                                  ![w].buf = HeaderIf(writers[w].first)]
    /\ UNCHANGED logged

\* history.py 102: a row too long for the buffer makes the buffered header reach
\* the file on its own, ahead of the row
LogSpill(w) ==
    /\ writers[w].pc = "open" /\ writers[w].buf /= <<>>
    /\ hist' = AppendLines(hist, writers[w].buf)
    /\ writers' = [writers EXCEPT ![w].buf = <<>>]
    /\ UNCHANGED logged

\* history.py 102-103: the row is written and the file closed, which appends what
\* the buffer holds; the call returns
LogClose(w) ==
    /\ writers[w].pc = "open"
    /\ LET c == writers[w].call
       IN  /\ hist' = AppendLines(hist, writers[w].buf
                                        \o <<HistRow(c.input, c.summary, c.now)>>)
           /\ logged' = Append(logged, c)
    /\ writers' = [writers EXCEPT ![w].pc = "done", ![w].buf = <<>>]

-----------------------------------------------------------------------------
(* translator.py                                                            *)

SUPPORTED_TRANSLATORS ==
    [de |-> "opus-mt-de-en", nl |-> "opus-mt-nl-en", fr |-> "opus-mt-fr-en",
     es |-> "opus-mt-es-en"]

\* the languages detect_lang / transcribe report in this model
Langs == {"en", "fr", "xx"}

\* A text is a segment's content in some language; translating it gives the same
\* content in English
Text(id, lang) == [id |-> id, lang |-> lang]

\* translate(text, src_lang) with the outcome of the model calls:
\*   "ok"        - the checkpoint loads (or is cached) and generate succeeds
\*   "gen_fail"  - tokenizer / generate / decode raises inside the try block
\*   "load_fail" - from_pretrained raises in _load, outside the try block; only a
\*                 checkpoint that is not cached is loaded
Translate(text, lang, outcome, cached) ==
    IF lang = "en" \/ lang \notin DOMAIN SUPPORTED_TRANSLATORS
    THEN [raised |-> FALSE, text |-> text, cache |-> cached]
    ELSE LET ckpt == SUPPORTED_TRANSLATORS[lang]
         IN  IF ckpt \notin cached /\ outcome = "load_fail"
             THEN [raised |-> TRUE, text |-> text, cache |-> cached]
             ELSE IF outcome = "gen_fail"
             THEN [raised |-> FALSE, text |-> text, cache |-> cached \cup {ckpt}]
             ELSE [raised |-> FALSE, text |-> Text(text.id, "en"),
                   cache |-> cached \cup {ckpt}]

TranslateOutcomes == {"ok", "gen_fail", "load_fail"}

-----------------------------------------------------------------------------
(* pipeline.py: predict_any                                                 *)

\* _fmt(ts) for a whole number of seconds: HH:MM:SS,mmm
Fmt(ts) ==
    LET secs == ts % 86400
    IN  <<secs \div 3600, (secs % 3600) \div 60, secs % 60, 0>>

\* f"{score:.2f}" of a score kept in hundredths
FmtScore(v) == ToString(v \div 100) \o "." \o ToString((v % 100) \div 10) \o ToString(v % 10)

\* thresholds that put a score equal to one of them in the lower bucket
IntensityLabelInclusive(do_intensity, score) ==
    IF do_intensity /\ score.some
    THEN IF score.v <= 15 THEN "neutral"
         ELSE IF score.v <= 40 THEN "mild"
         ELSE IF score.v <= 70 THEN "moderate"
         ELSE IF score.v <= 90 THEN "strong"
         ELSE "intense"
    ELSE ""

\* the intensity label of a score (pipeline.py 419-430)
IntensityLabel(do_intensity, score) ==
    IF do_intensity /\ score.some
    THEN IF score.v < 15 THEN "neutral"
         ELSE IF score.v < 40 THEN "mild"
         ELSE IF score.v < 70 THEN "moderate"
         ELSE IF score.v < 90 THEN "strong"
         ELSE "intense"
    ELSE ""

\* headers that carry the intensity columns whatever the request asks
HeadersAlwaysIntensity(do_intensity) ==
    <<"start", "end", "sentence", "translation", "emotion">>
    \o <<"intensity_score", "intensity_label">>

\* headers (pipeline.py 374-376)
Headers(do_intensity) ==
    <<"start", "end", "sentence", "translation", "emotion">>
    \o (IF do_intensity THEN <<"intensity_score", "intensity_label">> ELSE <<>>)

\* a row whose score and label fields are left empty whatever the score
RowScoreless(seg, translation, emo, score, do_intensity) ==
    <<Fmt(seg.start), Fmt(seg.end), seg.text, translation, emo>>
    \o (IF do_intensity THEN <<"", "">> ELSE <<>>)

\* row (pipeline.py 432-434)
Row(seg, translation, emo, score, do_intensity) ==
    <<Fmt(seg.start), Fmt(seg.end), seg.text, translation, emo>>
    \o (IF do_intensity
        THEN <<IF score.some THEN FmtScore(score.v) ELSE "",
               IntensityLabel(do_intensity, score)>>
        ELSE <<>>)

\* a writer that skips the rows of failed segments
WriteRowSkipNan(file, row) == IF row[5] = "nan" THEN file ELSE Append(file, row)

\* writer.writerow(row)
WriteRow(file, row) == Append(file, row)

\* the cheap-path test with the second "not" lost
CheapPathLostNot(do_classify_ext, do_intensity) == ~do_classify_ext /\ do_intensity

\* not do_classify_ext and not do_intensity (pipeline.py 395)
CheapPath(do_classify_ext, do_intensity) == ~do_classify_ext /\ ~do_intensity

\* a fallback that is not sticky: the failure is handled, use_bert is left as it was
StickyAfterForgetful(ub, raised) == ub

\* use_bert after a call of Adapter A that raised or not (pipeline.py 405-410)
StickyAfter(ub, raised) == ub \/ raised

Call(k, adapter, raised) == [seg |-> k, adapter |-> adapter, raised |-> raised]

\* a loop body that goes to Adapter B when the request prefers "bert"
ClassifyByPreference(k, a, ub, outs, resp) ==
    LET bert  == PredictEmotionBert(resp, a.do_classify_ext, a.do_intensity)
        llama == PredictEmotionLlama(outs, a.do_classify_ext, a.do_intensity)
        byB   == [emo |-> bert.emo, score |-> bert.intensity,
                  made |-> <<Call(k, "B", FALSE)>>, use_bert |-> ub]
    IN  IF ~a.do_classify
        THEN [emo |-> "nan", score |-> None, made |-> <<>>, use_bert |-> ub]
        ELSE IF CheapPath(a.do_classify_ext, a.do_intensity) \/ a.classifier_model = "bert"
        THEN byB
        ELSE IF ~ub
             THEN IF llama.raised
                  THEN [byB EXCEPT !.made = <<Call(k, "A", TRUE), Call(k, "B", FALSE)>>,
                                   !.use_bert = TRUE]
                  ELSE [emo |-> llama.emo, score |-> llama.intensity,
                        made |-> <<Call(k, "A", FALSE)>>, use_bert |-> ub]
             ELSE byB

\* a loop body that asks the backends whether or not do_classify is set
ClassifyAlways(k, a, ub, outs, resp) ==
    LET bert  == PredictEmotionBert(resp, a.do_classify_ext, a.do_intensity)
        llama == PredictEmotionLlama(outs, a.do_classify_ext, a.do_intensity)
        byB   == [emo |-> bert.emo, score |-> bert.intensity,
                  made |-> <<Call(k, "B", FALSE)>>, use_bert |-> ub]
    IN  IF CheapPath(a.do_classify_ext, a.do_intensity) THEN byB
        ELSE IF ~ub
             THEN IF llama.raised
                  THEN [byB EXCEPT !.made = <<Call(k, "A", TRUE), Call(k, "B", FALSE)>>,
                                   !.use_bert = TRUE]
                  ELSE [emo |-> llama.emo, score |-> llama.intensity,
                        made |-> <<Call(k, "A", FALSE)>>, use_bert |-> ub]
             ELSE byB

\* The classification of segment k (pipeline.py 392-417): the emotion and score, the
\* adapter calls made, and use_bert afterwards.  outs and resp are what the two
\* backends answer if they are asked
Classify(k, a, ub, outs, resp) ==
    LET bert  == PredictEmotionBert(resp, a.do_classify_ext, a.do_intensity)
        llama == PredictEmotionLlama(outs, a.do_classify_ext, a.do_intensity)
        byB   == [emo |-> bert.emo, score |-> bert.intensity,
                  made |-> <<Call(k, "B", FALSE)>>, use_bert |-> ub]
    IN  IF ~a.do_classify
        THEN [emo |-> "nan", score |-> None, made |-> <<>>, use_bert |-> ub]
        ELSE IF CheapPath(a.do_classify_ext, a.do_intensity) THEN byB
        ELSE IF ~ub
             THEN IF llama.raised
                  THEN [byB EXCEPT !.made = <<Call(k, "A", TRUE), Call(k, "B", FALSE)>>,
                                   !.use_bert = StickyAfter(ub, TRUE)]
                  ELSE [emo |-> llama.emo, score |-> llama.intensity,
                        made |-> <<Call(k, "A", FALSE)>>,
                        use_bert |-> StickyAfter(ub, FALSE)]
             ELSE byB

\* what the two backends answer in a request: the chat backend's models fail up to
\* some point and then reply; the scoring endpoint fails or sends a class index
PipeReplies == {<<"Answer:", "Joy">>, <<"Answer:", "love", "Intensity:", "STRONG">>}

PipeLlamaOutcomes ==
    {FailsThen(k, r) : k \in {0, 1, 1 + NumFallbacks}, r \in PipeReplies}

PipeBertResponses ==
    {r \in BertFailures : r.kind = "neterr"}
    \cup BertBodies({JVal("list_int", 11), JVal("list_int", 17)}, {JNone})

Seg(start, end, text) == [start |-> start, end |-> end, text |-> text]

NoSummary == [returned |-> FALSE, language |-> "", rows |-> 0]

\* the classifier preference: enforce's default and a client's choice
ClassifierModels == {"llama", "bert"}

\* the calls predict_any is given: any flags, an input of each kind (no start_time /
\* end_time), persist given or left at its default, the classifier preference as
\* enforce sets it when the client names none
PipeArgs ==
    [kind : {"text", "textfile", "audio"}, do_translate : BOOLEAN,
     do_classify : BOOLEAN, do_classify_ext : BOOLEAN, do_intensity : BOOLEAN,
     persist : BOOLEAN, classifier_model : {"llama"}]

PipeInit ==
    /\ pc = "start"
    /\ args \in PipeArgs
    /\ src_lang = ""
    /\ segments = <<>>
    /\ idx = 0
    /\ use_bert = FALSE
    /\ csv = <<>>
    /\ calls = <<>>
    /\ cache = {}
    /\ summary = NoSummary

\* an artifact opened with the fallback flag left as the last request set it
OpenCsvKeepFlag ==
    /\ csv' = WriteRow(<<>>, Headers(args.do_intensity))
    /\ UNCHANGED use_bert
    /\ idx' = 0
    /\ pc' = "classify"

\* pipeline.py 370-384: the artifact is opened for writing and the header written
OpenCsv ==
    /\ csv' = WriteRow(<<>>, Headers(args.do_intensity))
    /\ use_bert' = FALSE
    /\ idx' = 0
    /\ pc' = "classify"

\* a failure noticed only after the artifact was opened and its header written
AbortLate(where) ==
    /\ pc' = where
    /\ csv' = WriteRow(csv, Headers(args.do_intensity))
    /\ UNCHANGED <<args, src_lang, segments, idx, use_bert, calls, cache, summary>>

Abort(where) ==
    /\ pc' = where
    /\ UNCHANGED <<args, src_lang, segments, idx, use_bert, csv, calls, cache, summary>>

\* pipeline.py 319-341: a .txt / .csv file; read_text raises when it is missing
NormalizeTextFile ==
    /\ pc = "start" /\ args.kind = "textfile"
    /\ \/ Abort("abort_normalizing")
       \/ \E lang \in Langs, n \in 0..MaxSegs :
            /\ src_lang' = lang
            /\ segments' = [k \in 1..n |-> Seg(0, 0, Text(k, lang))]
            /\ OpenCsv
            /\ UNCHANGED <<args, calls, cache, summary>>

\* pipeline.py 343-360: a media reference; _normalise_source / transcribe may raise
NormalizeAudio ==
    /\ pc = "start" /\ args.kind = "audio"
    /\ \/ Abort("abort_normalizing")
       \/ \E lang \in Langs, n \in 0..MaxSegs :
            /\ src_lang' = lang
            /\ segments' = [k \in 1..n |-> Seg(k - 1, k, Text(k, lang))]
            /\ OpenCsv
            /\ UNCHANGED <<args, calls, cache, summary>>

\* pipeline.py 362-367: plain text, translated here when asked
NormalizeText ==
    /\ pc = "start" /\ args.kind = "text"
    /\ \E lang \in Langs, tout \in TranslateOutcomes :
         LET translating == args.do_translate /\ lang /= "en"
             tr == IF translating THEN Translate(Text(1, lang), lang, tout, cache)
                   ELSE [raised |-> FALSE, text |-> Text(1, lang), cache |-> cache]
         IN  IF tr.raised
             THEN Abort("abort_normalizing")
             ELSE /\ src_lang' = IF translating THEN "en" ELSE lang
                  /\ segments' = <<Seg(0, 0, tr.text)>>
                  /\ cache' = tr.cache
                  /\ OpenCsv
                  /\ UNCHANGED <<args, calls, summary>>

\* pipeline.py 386-435: one turn of the loop over the segments, the translator
\* and the two backends doing tout, outs and resp
SegmentStepOn(tout, outs, resp) ==
    /\ pc = "classify" /\ idx < Len(segments)
    /\   LET k   == idx + 1
             seg == segments[k]
             tr  == IF args.do_translate /\ src_lang /= "en"
                    THEN Translate(seg.text, src_lang, tout, cache)
                    ELSE [raised |-> FALSE, text |-> seg.text, cache |-> cache]
             c   == Classify(k, args, use_bert, outs, resp)
         IN  IF tr.raised
             THEN Abort("abort_classifying")
             ELSE /\ csv' = WriteRow(csv, Row(seg, tr.text, c.emo, c.score,
                                              args.do_intensity))
                  /\ calls' = calls \o c.made
                  /\ use_bert' = c.use_bert
                  /\ cache' = tr.cache
                  /\ idx' = k
                  /\ UNCHANGED <<pc, args, src_lang, segments, summary>>

SegmentStep ==
    \E tout \in TranslateOutcomes, outs \in PipeLlamaOutcomes,
       resp \in PipeBertResponses : SegmentStepOn(tout, outs, resp)

\* the summary dict of pipeline.py 439-446: args.kind stands for the input, the
\* clock reads "T1" and the artifact is "artifact.csv"
SummaryDict ==
    [timestamp |-> "T1", input |-> args.kind, language |-> src_lang,
     csv |-> "artifact.csv"]

\* a return that logs the request whatever persist says
FinishLogsAlways ==
    /\ pc = "classify" /\ idx = Len(segments)
    /\ pc' = "done"
    /\ summary' = [returned |-> TRUE, language |-> src_lang, rows |-> Len(csv)]
    /\ hist' = LogInference(hist, args.kind, SummaryDict, "T1")
    /\ logged' = Append(logged, LogCall(args.kind, SummaryDict, "T1"))
    /\ UNCHANGED <<args, src_lang, segments, idx, use_bert, csv, calls, cache, writers>>

\* pipeline.py 437-451: the loop is over, the summary is built, logged to the
\* history when persist is set, and returned
Finish ==
    /\ pc = "classify" /\ idx = Len(segments)
    /\ pc' = "done"
    /\ summary' = [returned |-> TRUE, language |-> src_lang, rows |-> Len(csv)]
    /\ IF args.persist
       THEN /\ hist' = LogInference(hist, args.kind, SummaryDict, "T1")
            /\ logged' = Append(logged, LogCall(args.kind, SummaryDict, "T1"))
       ELSE UNCHANGED <<hist, logged>>
    /\ UNCHANGED <<args, src_lang, segments, idx, use_bert, csv, calls, cache, writers>>

\* ---- predict_any called a second time on the same segments ----

\* what the translator and the backends do for one segment, the same in both runs
Stub(tout, outs, resp) == [tout |-> tout, outs |-> outs, resp |-> resp]

TwiceStubs ==
    {Stub("ok", FailsThen(k, <<"Answer:", "love", "Intensity:", "STRONG">>), r) :
        k \in {0, 1 + NumFallbacks},
        r \in {x \in PipeBertResponses : x.kind = "neterr"}
              \cup BertBodies({JVal("list_int", 11)}, {JNone})}

NoPrev == [ran |-> FALSE, csv |-> <<>>, calls |-> <<>>, use_bert |-> FALSE]

\* the first call: a media reference, persist left at its default
TwiceInit ==
    /\ PipeInit /\ args.kind = "audio" /\ args.persist
    /\ stubs = <<>> /\ prev = NoPrev

\* a turn of the first run's loop; what the stubs did is kept for the second run
FirstSegmentStep ==
    /\ ~prev.ran
    /\ \E st \in TwiceStubs :
         /\ SegmentStepOn(st.tout, st.outs, st.resp)
         /\ stubs' = Append(stubs, st)
    /\ UNCHANGED prev

\* the first call has returned; predict_any is called again with the same
\* arguments but for the classifier preference, which is the same or another;
\* normalisation gives the same segments, and the artifact is opened again
\* (pipeline.py 312-384).  translator._CACHE stays as it is
RunAgain ==
    /\ pc = "done" /\ ~prev.ran
    /\ prev' = [ran |-> TRUE, csv |-> csv, calls |-> calls, use_bert |-> use_bert]
    /\ \E m \in ClassifierModels : args' = [args EXCEPT !.classifier_model = m]
    /\ OpenCsv
    /\ calls' = <<>>
    /\ summary' = NoSummary
    /\ UNCHANGED <<src_lang, segments, cache, stubs>>

\* a turn of the second run's loop, the stubs doing what they did the first time
SecondSegmentStep ==
    /\ prev.ran /\ idx < Len(stubs)
    /\ SegmentStepOn(stubs[idx + 1].tout, stubs[idx + 1].outs, stubs[idx + 1].resp)
    /\ UNCHANGED <<stubs, prev>>

-----------------------------------------------------------------------------
(* pipeline.py: _make_safe_stem                                             *)

_AUDIO_EXTS == {".wav", ".mp3", ".m4a", ".flac", ".ogg", ".mp4"}
_TEXT_EXTS == {".txt", ".csv"}

\* A reference is kept as its characters.  The characters of this model, and
\* those among them that match [0-9A-Za-z_-]
RefChars == {"a", "Q", "7", "_", "-", ".", "/", " "}
WordChars == {"a", "Q", "7", "_", "-", "i", "n", "p", "u", "t"}

SeqsUpTo(S, n) == UNION {[1..k -> S] : k \in 0..n}

Max(S) == CHOOSE x \in S : \A y \in S : y <= x

\* s.rfind(c), counted from 1; 0 when c does not occur
LastIndexOf(s, c) ==
    LET I == {i \in 1..Len(s) : s[i] = c}
    IN  IF I = {} THEN 0 ELSE Max(I)

\* Path(p).name: the last component of p, empty components and "." components
\* being dropped
RECURSIVE NameOf(_)
NameOf(p) ==
    IF p = <<>> THEN <<>>
    ELSE LET j    == LastIndexOf(p, "/")
             last == SubSeq(p, j + 1, Len(p))
         IN  IF last = <<>> \/ last = <<".">>
             THEN IF j = 0 THEN <<>> ELSE NameOf(SubSeq(p, 1, j - 1))
             ELSE last

\* Path(p).stem: the name without its last suffix; a dot that leads or ends the
\* name starts no suffix
StemOf(p) ==
    LET name == NameOf(p)
        i    == LastIndexOf(name, ".")
    IN  IF 1 < i /\ i < Len(name) THEN SubSeq(name, 1, i - 1) ELSE name

\* re.sub(r"[^0-9A-Za-z_-]", "_", name)
Sanitize(name) == [i \in 1..Len(name) |-> IF name[i] \in WordChars THEN name[i] ELSE "_"]

\* parse_qs(query)[key]: the values given for the key, blank ones left out
RECURSIVE QsValues(_, _)
QsValues(query, key) ==
    IF query = <<>> THEN <<>>
    ELSE LET rest == QsValues(Tail(query), key)
         IN  IF Head(query).k = key /\ Head(query).v /= <<>>
             THEN <<Head(query).v>> \o rest
             ELSE rest

\* a reference: a URL (after its scheme and host, the path and the query's
\* key=value pairs) or anything else, all of it in path
Ref(url, path, query) == [url |-> url, path |-> path, query |-> query]

\* _make_safe_stem(inp)
MakeSafeStem(inp) ==
    LET vs   == QsValues(inp.query, "v")
        name == StemOf(inp.path)
    IN  IF inp.url /\ vs /= <<>>
        THEN vs[1]
        ELSE IF Sanitize(name) /= <<>> THEN Sanitize(name)
             ELSE <<"i", "n", "p", "u", "t">>

\* ---- the references _make_safe_stem is called with ----
\* file paths and raw text
PlainRefs == {Ref(FALSE, p, <<>>) : p \in SeqsUpTo(RefChars, MaxNameLen)}

\* the values a URL gives for v (none, blank, an id, something else)
VideoIds == SeqsUpTo({"Q", "7", "-", ".", "/"}, 2)

Param(k, v) == [k |-> k, v |-> v]

Queries ==
    {<<>>, <<Param("t", <<"7">>)>>, <<Param("v", <<>>), Param("v", <<"Q">>)>>}
    \cup {<<Param("v", v)>> : v \in VideoIds}
    \cup {<<Param("t", <<"7">>), Param("v", v)>> : v \in VideoIds}

UrlRefs == {Ref(TRUE, p, q) : p \in SeqsUpTo({"a", ".", "/"}, 2), q \in Queries}

NoResult == [done |-> FALSE, r |-> <<>>]

FnCall(fn, arg) == [fn |-> fn, arg |-> arg]

StemInit ==
    /\ fn_in \in {FnCall("_make_safe_stem", x) : x \in PlainRefs \cup UrlRefs}
    /\ fn_out = NoResult

DoMakeSafeStem ==
    /\ fn_in.fn = "_make_safe_stem" /\ ~fn_out.done
    /\ fn_out' = [done |-> TRUE, r |-> MakeSafeStem(fn_in.arg)]
    /\ UNCHANGED fn_in

-----------------------------------------------------------------------------
(* pipeline.py: predict_any, the segments of a text file                    *)

\* A file's content is kept as its characters.  The characters of this model
FileChars == {"a", " ", "?", ",", "\n"}

\* the characters str.strip() removes
WhiteSpace == {" ", "\n"}

RECURSIVE LStrip(_)
LStrip(s) == IF s /= <<>> /\ Head(s) \in WhiteSpace THEN LStrip(Tail(s)) ELSE s

RECURSIVE RStrip(_)
RStrip(s) ==
    IF s /= <<>> /\ s[Len(s)] \in WhiteSpace THEN RStrip(SubSeq(s, 1, Len(s) - 1)) ELSE s

\* s.strip()
Strip(s) == RStrip(LStrip(s))

\* s.split(sep)
RECURSIVE Split(_, _)
Split(s, sep) ==
    LET I == {i \in 1..Len(s) : s[i] = sep}
    IN  IF I = {} THEN <<s>>
        ELSE <<SubSeq(s, 1, Min(I) - 1)>> \o Split(SubSeq(s, Min(I) + 1, Len(s)), sep)

\* s.splitlines(): a line break at the very end starts no further line
SplitLines(s) ==
    LET ps == Split(s, "\n")
    IN  IF ps[Len(ps)] = <<>> THEN SubSeq(ps, 1, Len(ps) - 1) ELSE ps

\* the rows csv.reader yields: the fields of every line, none for an empty line
CsvRows(s) ==
    LET ls == SplitLines(s)
    IN  [i \in 1..Len(ls) |-> IF ls[i] = <<>> THEN <<>> ELSE Split(ls[i], ",")]

NonEmpty(s) == s /= <<>>

\* a pass that leaves every sentence as it is
PunctuateNever(s) == s

\* s if re.search(r"[.!?]$", s) else s + "." (pipeline.py 340)
Punctuate(s) ==
    IF s /= <<>> /\ s[Len(s)] \in {".", "!", "?"} THEN s ELSE s \o <<".">>

\* pipeline.py 322-341: the sentences of a .txt / .csv file with this content
TextFileSentences(suffix, content) ==
    LET raw    == Strip(content)
        lines  == SplitLines(raw)
        rows   == CsvRows(content)
        data   == IF rows = <<>> THEN <<>> ELSE Tail(rows)
        firsts == [i \in 1..Len(data) |->
                     IF data[i] = <<>> THEN <<>> ELSE Strip(data[i][1])]
        found  == IF suffix = ".txt"
                  THEN SelectSeq([i \in 1..Len(lines) |-> Strip(lines[i])], NonEmpty)
                  ELSE SelectSeq(firsts, NonEmpty)
        sentences == IF found = <<>> /\ raw /= <<>> THEN <<raw>> ELSE found
    IN  [i \in 1..Len(sentences) |-> Punctuate(sentences[i])]

\* ---- the text files predict_any is given ----
TextFile(suffix, content) == [suffix |-> suffix, content |-> content]

TextFiles == {TextFile(x, c) : x \in _TEXT_EXTS, c \in SeqsUpTo(FileChars, MaxFileLen)}

TextFileInit ==
    /\ fn_in \in {FnCall("text_file", f) : f \in TextFiles}
    /\ fn_out = NoResult

DoReadTextFile ==
    /\ fn_in.fn = "text_file" /\ ~fn_out.done
    /\ fn_out' = [done |-> TRUE,
                  r |-> TextFileSentences(fn_in.arg.suffix, fn_in.arg.content)]
    /\ UNCHANGED fn_in

-----------------------------------------------------------------------------
(* pipeline.py: predict_any, the intensity label                            *)

\* the scores a classifier may hand back, in hundredths, and no score
ScoreValues == 0..100

Scores == {None} \cup {Some(v) : v \in ScoreValues}

LabelInit ==
    /\ fn_in \in {FnCall("label", [do_intensity |-> d, score |-> x]) :
                    d \in BOOLEAN, x \in Scores}
    /\ fn_out = NoResult

\* pipeline.py 419-430 for one segment
DoIntensityLabel ==
    /\ fn_in.fn = "label" /\ ~fn_out.done
    /\ fn_out' = [done |-> TRUE,
                  r |-> IntensityLabel(fn_in.arg.do_intensity, fn_in.arg.score)]
    /\ UNCHANGED fn_in

-----------------------------------------------------------------------------
(* pipeline.py: predict_any, two requests served by one process             *)

\* the Whisper model sizes a caller names
WhisperModels == {"tiny", "small"}

\* os.environ before any request has set WHISPER_MODEL
Unset == "unset"

\* os.getenv("WHISPER_MODEL", "tiny") (transcriber.py 255)
GetenvWhisper(env) == IF env = Unset THEN "tiny" ELSE env

\* the inputs of the requests: two media files of one name in two directories, a
\* video URL, a sentence; kind is the branch predict_any takes for the input
ReqSource(name, kind, ref) == [name |-> name, kind |-> kind, ref |-> ref]

ReqSources ==
    {ReqSource("a.7", "audio", Ref(FALSE, <<"a", ".", "7">>, <<>>)),
     ReqSource("Q/a.7", "audio", Ref(FALSE, <<"Q", "/", "a", ".", "7">>, <<>>)),
     ReqSource("https://a?v=Q", "audio", Ref(TRUE, <<"a">>, <<Param("v", <<"Q">>)>>)),
     ReqSource("a Q", "text", Ref(FALSE, <<"a", " ", "Q">>, <<>>))}

ReqIds == {1, 2}

\* csv_path (pipeline.py 371-373): TRANSCRIPT_DIR is one directory for the whole
\* process, so the stem tells the path
CsvPath(q) == MakeSafeStem(q.src.ref)

ArtifactStems == {MakeSafeStem(s.ref) : s \in ReqSources}

\* a call of predict_any(inp, model, ..., do_intensity) that has not started
Request(src, model, do_intensity) ==
    [src |-> src, model |-> model, do_intensity |-> do_intensity,
     pc |-> "start", used |-> "none", wrote |-> <<>>]

\* the header and the one row of the request's artifact; what the row says
\* depends on the input and, for a media input, on the Whisper model that
\* transcribed it
ReqRows(q) == <<Headers(q.do_intensity), <<q.src.name, q.used>>>>

\* csv_path.open("w") (pipeline.py 382): the file is created or emptied
Truncate(file) == [exists |-> TRUE, rows |-> <<>>]

\* the writer's buffer reaching the file when it is closed: it lands at the start
\* of the file, over what is there (counted in rows)
WriteAtStart(file, lines) ==
    [exists |-> TRUE,
     rows |-> lines \o SubSeq(file.rows, Len(lines) + 1, Len(file.rows))]

ReqInit ==
    /\ environ = Unset
    /\ files = [p \in ArtifactStems |-> NoFile]
    /\ reqs \in [ReqIds -> {Request(s, m, i) : s \in ReqSources, m \in WhisperModels,
                                              i \in BOOLEAN}]

\* pipeline.py 315: os.environ["WHISPER_MODEL"] = model
ReqSetEnv(r) ==
    /\ reqs[r].pc = "start"
    /\ environ' = reqs[r].model
    /\ reqs' = [reqs EXCEPT ![r].pc = "segments"]
    /\ UNCHANGED files

\* pipeline.py 319-367: the segments are built; a media input is transcribed with
\* the model the environment names when transcribe runs (transcriber.py 255-257)
ReqBuildSegments(r) ==
    /\ reqs[r].pc = "segments"
    /\ reqs' = [reqs EXCEPT ![r].pc = "open",
                            ![r].used = IF reqs[r].src.kind = "audio"
                                        THEN GetenvWhisper(environ) ELSE "none"]
    /\ UNCHANGED <<environ, files>>

\* pipeline.py 370-384: the artifact is opened for writing
ReqOpen(r) ==
    /\ reqs[r].pc = "open"
    /\ files' = [files EXCEPT ![CsvPath(reqs[r])] = Truncate(@)]
    /\ reqs' = [reqs EXCEPT ![r].pc = "rows"]
    /\ UNCHANGED environ

\* pipeline.py 384-451: header and rows are written, the file is closed and the
\* summary returned
ReqClose(r) ==
    /\ reqs[r].pc = "rows"
    /\ files' = [files EXCEPT ![CsvPath(reqs[r])] = WriteAtStart(@, ReqRows(reqs[r]))]
    /\ reqs' = [reqs EXCEPT ![r].pc = "returned", ![r].wrote = ReqRows(reqs[r])]
    /\ UNCHANGED environ

-----------------------------------------------------------------------------
(* classifier.py, pipeline.py: from the replied intensity word to the label *)

\* the five words of the ordinal table as a backend replies them, one of them
\* capitalised as well, and a word the table does not hold
OrdinalWords == {"neutral", "mild", "moderate", "strong", "intense"}

RatedReplies ==
    {<<"Answer:", "Joy", "Intensity:", w>> : w \in OrdinalWords \cup {"Mild", "bogus"}}
    \cup {<<"Intensity:", w, "Intensity:", v>> : w, v \in OrdinalWords \cup {"Mild", "bogus"}}

Rated(stage, score, label) == [stage |-> stage, score |-> score, label |-> label]

\* a segment whose sentence the chat backend rates with the reply
RoundTripInit ==
    /\ fn_in \in {FnCall("intensity", [reply |-> r, classify_ext |-> e, do_intensity |-> i]) :
                    r \in RatedReplies, e \in BOOLEAN, i \in BOOLEAN}
    /\ fn_out = [done |-> FALSE, r |-> Rated("asked", None, "")]

\* pipeline.py 401-403: predict_emotion_llama gives the score (classifier.py 174-187)
DoScoreReply ==
    /\ fn_in.fn = "intensity" /\ fn_out.r.stage = "asked"
    /\ fn_out' = [done |-> FALSE,
                  r |-> Rated("scored",
                              PredictEmotionLlama(FailsThen(0, fn_in.arg.reply),
                                                  fn_in.arg.classify_ext,
                                                  fn_in.arg.do_intensity).intensity,
                              "")]
    /\ UNCHANGED fn_in

\* pipeline.py 419-434: the label of the score, as the row carries it
DoLabelScore ==
    /\ fn_in.fn = "intensity" /\ fn_out.r.stage = "scored"
    /\ fn_out' = [done |-> TRUE,
                  r |-> Rated("labelled", fn_out.r.score,
                              IntensityLabel(fn_in.arg.do_intensity, fn_out.r.score))]
    /\ UNCHANGED fn_in

-----------------------------------------------------------------------------
(* ot2_gym_wrapper.py: OT2Env                                               *)

\* nothing returned by step yet
NoStep ==
    [taken |-> FALSE, before |-> 0, terminated |-> FALSE, truncated |-> FALSE,
     info |-> FALSE]

\* OT2Env(render, max_steps) (ot2_gym_wrapper.py 28-59)
EnvInit ==
    /\ max_steps \in 1..MaxEpisode
    /\ steps = 0
    /\ goal_position = "None"
    /\ step_out = NoStep

\* reset(seed, options): a goal is sampled, the simulation reset, the counter
\* cleared
EnvReset ==
    /\ goal_position' = "sampled"
    /\ steps' = 0
    /\ step_out' = NoStep
    /\ UNCHANGED max_steps

\* step(action) after a reset; near is whether the pipette ends within 0.01 of the
\* goal.  info holds the episode entry or is empty.  The caller may go on after a
\* truncated step; the model follows it one step further
EnvStep ==
    /\ goal_position = "sampled" /\ steps <= max_steps
    /\ \E near \in BOOLEAN :
         LET terminated == near
             truncated  == steps >= max_steps
         IN  step_out' = [taken |-> TRUE, before |-> steps, terminated |-> terminated,
                          truncated |-> truncated, info |-> terminated \/ truncated]
    /\ steps' = steps + 1
    /\ UNCHANGED <<max_steps, goal_position>>

-----------------------------------------------------------------------------
(* api/main.py, cli.py: the two entry points                                *)

\* the references a client sends: a media file, a text file, a sentence
EntrySources == {"clip.wav", "notes.txt", "hello"}

\* Path(src).suffix.lower()
SuffixOf(src) ==
    CASE src = "clip.wav" -> ".wav" [] src = "notes.txt" -> ".txt" [] OTHER -> ""

\* the branch predict_any takes for an input (pipeline.py 319, 343, 362); none of
\* the references above is a URL
KindOf(src) ==
    IF SuffixOf(src) \in _TEXT_EXTS THEN "textfile"
    ELSE IF SuffixOf(src) \in _AUDIO_EXTS THEN "audio"
    ELSE "text"

\* the form fields start_time / end_time as the client sends them
FormTimes == {"", "00:10"}

\* (t or "").strip() or None
TimeOrNone(t) == IF t = "" THEN "None" ELSE t

\* the dict predict_any_endpoint hands to enforce (api/main.py 146-157)
HttpPayload(src, st, et) ==
    [src |-> src, translate |-> TRUE, classify |-> TRUE, classify_ext |-> TRUE,
     intensity |-> TRUE, start_time |-> TimeOrNone(st), end_time |-> TimeOrNone(et)]

\* a CLI that measures the media and reports a length over every plan's cap
CliPayloadWithDuration(src) == [src |-> src, duration_sec |-> 4 * 60 * 60 + 1]

\* the dict _predict_any hands to enforce (cli.py 87)
CliPayload(src) == [src |-> src]

EntryPayloads ==
    {HttpPayload(s, st, et) : s \in EntrySources, st \in FormTimes, et \in FormTimes}
    \cup {CliPayload(s) : s \in EntrySources}

\* an entry point that does not wait for the outcome of enforce
MayCallPredictEarly(status) == status \in {"ok", "pending"}

\* predict_any(**payload) is reached only when enforce has returned; an
\* HTTPException raised by enforce leaves the handler
MayCallPredict(status) == status = "ok"

\* the parameters of predict_any that have no default
RequiredArgs ==
    {"inp", "model", "do_translate", "do_classify", "do_classify_ext", "do_intensity"}

\* predict_any(**p): the call binds the keyword arguments, and raises TypeError
\* when a parameter without default is missing
BindArgs(p) ==
    IF RequiredArgs \subseteq DOMAIN p
    THEN [pc |-> "start",
          args |-> [kind |-> KindOf(p["inp"]), do_translate |-> p["do_translate"],
                    do_classify |-> p["do_classify"],
                    do_classify_ext |-> p["do_classify_ext"],
                    do_intensity |-> p["do_intensity"],
                    persist |-> Get(p, "persist", TRUE),
                    classifier_model |-> Get(p, "classifier_model", "none")]]
    ELSE [pc |-> "abort_call", args |-> [kind |-> "none"]]

\* a request arrives at an entry point: nothing has run yet
EntryInit ==
    /\ g_plan \in Plans
    /\ g_payload \in EntryPayloads
    /\ g_out = [status |-> "pending", plan |-> g_plan, minutes |-> 0,
                payload |-> g_payload]

\* api/main.py 159-160, cli.py 99: the entry point calls predict_any with what
\* enforce returned
EntryCallPredict ==
    /\ pc = "idle" /\ MayCallPredict(g_out.status)
    /\ pc' = BindArgs(g_out.payload).pc
    /\ args' = BindArgs(g_out.payload).args
    /\ UNCHANGED <<src_lang, segments, idx, use_bert, csv, calls, cache, summary>>

-----------------------------------------------------------------------------

(* Specifications                                                           *)

PipeIdle ==
    /\ pc = "idle" /\ args = [kind |-> "none"] /\ src_lang = "" /\ segments = <<>>
    /\ idx = 0 /\ use_bert = FALSE /\ csv = <<>> /\ calls = <<>> /\ cache = {}
    /\ summary = NoSummary

AdIdle ==
    /\ ad_in = AdIn("none", AllFail, NoResp, <<FALSE, FALSE>>)
    /\ ad_out = [done |-> TRUE, r |-> NoOut]

GateIdle ==
    /\ g_plan = "basic" /\ g_payload = [src |-> ""]
    /\ g_out = [status |-> "idle", plan |-> "basic", minutes |-> 0,
                payload |-> [src |-> ""]]

LogIdle == hist = NoFile /\ logged = <<>> /\ writers = NoWriters

FnIdle == fn_in = FnCall("none", <<>>) /\ fn_out = [done |-> TRUE, r |-> <<>>]

ReqIdle == environ = Unset /\ files = <<>> /\ reqs = <<>>

RunIdle == stubs = <<>> /\ prev = NoPrev

EnvIdle == max_steps = 0 /\ steps = 0 /\ goal_position = "None" /\ step_out = NoStep

\* one request served by predict_any
Init == PipeInit /\ AdIdle /\ GateIdle /\ LogIdle /\ FnIdle /\ ReqIdle /\ RunIdle /\ EnvIdle

Next ==
    \/ NormalizeTextFile /\ UNCHANGED <<adVars, gateVars, logVars, fnVars, reqVars, runVars, envVars>>
    \/ NormalizeAudio /\ UNCHANGED <<adVars, gateVars, logVars, fnVars, reqVars, runVars, envVars>>
    \/ NormalizeText /\ UNCHANGED <<adVars, gateVars, logVars, fnVars, reqVars, runVars, envVars>>
    \/ SegmentStep /\ UNCHANGED <<adVars, gateVars, logVars, fnVars, reqVars, runVars, envVars>>
    \/ Finish /\ UNCHANGED <<adVars, gateVars, fnVars, reqVars, runVars, envVars>>

Spec == Init /\ [][Next]_vars

\* one call of an adapter function
InitAdapters == PipeIdle /\ AdInit /\ GateIdle /\ LogIdle /\ FnIdle /\ ReqIdle /\ RunIdle /\ EnvIdle

NextAdapters ==
    \/ DoCallLlama /\ UNCHANGED <<pipeVars, gateVars, logVars, fnVars, reqVars, runVars, envVars>>
    \/ DoPredictLlama /\ UNCHANGED <<pipeVars, gateVars, logVars, fnVars, reqVars, runVars, envVars>>
    \/ DoPredictBert /\ UNCHANGED <<pipeVars, gateVars, logVars, fnVars, reqVars, runVars, envVars>>

SpecAdapters == InitAdapters /\ [][NextAdapters]_vars

\* one call of enforce
InitGate == PipeIdle /\ AdIdle /\ GateInit /\ LogIdle /\ FnIdle /\ ReqIdle /\ RunIdle /\ EnvIdle

NextGate == DoEnforce /\ UNCHANGED <<pipeVars, adVars, logVars, fnVars, reqVars, runVars, envVars>>

SpecGate == InitGate /\ [][NextGate]_vars

\* one request through an entry point: enforce, then predict_any
InitEntry == PipeIdle /\ AdIdle /\ EntryInit /\ LogIdle /\ FnIdle /\ ReqIdle /\ RunIdle /\ EnvIdle

NextEntry ==
    \/ DoEnforce /\ UNCHANGED <<pipeVars, adVars, logVars, fnVars, reqVars, runVars, envVars>>
    \/ EntryCallPredict /\ UNCHANGED <<adVars, gateVars, logVars, fnVars, reqVars, runVars, envVars>>
    \/ NormalizeTextFile /\ UNCHANGED <<adVars, gateVars, logVars, fnVars, reqVars, runVars, envVars>>
    \/ NormalizeAudio /\ UNCHANGED <<adVars, gateVars, logVars, fnVars, reqVars, runVars, envVars>>
    \/ NormalizeText /\ UNCHANGED <<adVars, gateVars, logVars, fnVars, reqVars, runVars, envVars>>
    \/ SegmentStep /\ UNCHANGED <<adVars, gateVars, logVars, fnVars, reqVars, runVars, envVars>>
    \/ Finish /\ UNCHANGED <<adVars, gateVars, fnVars, reqVars, runVars, envVars>>

SpecEntry == InitEntry /\ [][NextEntry]_vars

\* calls of log_inference, one after the other
InitLog == PipeIdle /\ AdIdle /\ GateIdle /\ LogInit /\ FnIdle /\ ReqIdle /\ RunIdle /\ EnvIdle

NextLog == DoLogInference /\ UNCHANGED <<pipeVars, adVars, gateVars, fnVars, reqVars, runVars, envVars>>

SpecLog == InitLog /\ [][NextLog]_vars

\* two calls of log_inference at the same time
InitLogRace == PipeIdle /\ AdIdle /\ GateIdle /\ LogRaceInit /\ FnIdle /\ ReqIdle /\ RunIdle /\ EnvIdle

NextLogRace ==
    \/ (\E w \in Writers : LogCheck(w)) /\ UNCHANGED <<pipeVars, adVars, gateVars, fnVars, reqVars, runVars, envVars>>
    \/ (\E w \in Writers : LogOpen(w)) /\ UNCHANGED <<pipeVars, adVars, gateVars, fnVars, reqVars, runVars, envVars>>
    \/ (\E w \in Writers : LogSpill(w)) /\ UNCHANGED <<pipeVars, adVars, gateVars, fnVars, reqVars, runVars, envVars>>
    \/ (\E w \in Writers : LogClose(w)) /\ UNCHANGED <<pipeVars, adVars, gateVars, fnVars, reqVars, runVars, envVars>>

SpecLogRace == InitLogRace /\ [][NextLogRace]_vars

\* one call of _make_safe_stem
InitStem == PipeIdle /\ AdIdle /\ GateIdle /\ LogIdle /\ StemInit /\ ReqIdle /\ RunIdle /\ EnvIdle

NextStem == DoMakeSafeStem /\ UNCHANGED <<pipeVars, adVars, gateVars, logVars, reqVars, runVars, envVars>>

SpecStem == InitStem /\ [][NextStem]_vars

\* the segments of one text file
InitTextFile == PipeIdle /\ AdIdle /\ GateIdle /\ LogIdle /\ TextFileInit /\ ReqIdle /\ RunIdle /\ EnvIdle

NextTextFile == DoReadTextFile /\ UNCHANGED <<pipeVars, adVars, gateVars, logVars, reqVars, runVars, envVars>>

SpecTextFile == InitTextFile /\ [][NextTextFile]_vars

\* the label of one score
InitLabel == PipeIdle /\ AdIdle /\ GateIdle /\ LogIdle /\ LabelInit /\ ReqIdle /\ RunIdle /\ EnvIdle

NextLabel == DoIntensityLabel /\ UNCHANGED <<pipeVars, adVars, gateVars, logVars, reqVars, runVars, envVars>>

SpecLabel == InitLabel /\ [][NextLabel]_vars

\* two requests served by one process, one after the other or at the same time
InitTwo == PipeIdle /\ AdIdle /\ GateIdle /\ LogIdle /\ FnIdle /\ ReqInit /\ RunIdle /\ EnvIdle

NextTwo ==
    \/ (\E r \in ReqIds : ReqSetEnv(r)) /\ UNCHANGED <<pipeVars, adVars, gateVars, logVars, fnVars, runVars, envVars>>
    \/ (\E r \in ReqIds : ReqBuildSegments(r)) /\ UNCHANGED <<pipeVars, adVars, gateVars, logVars, fnVars, runVars, envVars>>
    \/ (\E r \in ReqIds : ReqOpen(r)) /\ UNCHANGED <<pipeVars, adVars, gateVars, logVars, fnVars, runVars, envVars>>
    \/ (\E r \in ReqIds : ReqClose(r)) /\ UNCHANGED <<pipeVars, adVars, gateVars, logVars, fnVars, runVars, envVars>>

SpecTwo == InitTwo /\ [][NextTwo]_vars

\* predict_any run twice on the same segments with the same stubs
InitTwice == TwiceInit /\ AdIdle /\ GateIdle /\ LogIdle /\ FnIdle /\ ReqIdle /\ EnvIdle

NextTwice ==
    \/ NormalizeAudio /\ UNCHANGED <<adVars, gateVars, logVars, fnVars, reqVars, runVars, envVars>>
    \/ FirstSegmentStep /\ UNCHANGED <<adVars, gateVars, logVars, fnVars, reqVars, envVars>>
    \/ RunAgain /\ UNCHANGED <<adVars, gateVars, logVars, fnVars, reqVars, envVars>>
    \/ SecondSegmentStep /\ UNCHANGED <<adVars, gateVars, logVars, fnVars, reqVars, envVars>>
    \/ Finish /\ UNCHANGED <<adVars, gateVars, fnVars, reqVars, runVars, envVars>>

SpecTwice == InitTwice /\ [][NextTwice]_vars

\* from the replied intensity word to the label of the row
InitRoundTrip == PipeIdle /\ AdIdle /\ GateIdle /\ LogIdle /\ RoundTripInit /\ ReqIdle /\ RunIdle /\ EnvIdle

NextRoundTrip ==
    \/ DoScoreReply /\ UNCHANGED <<pipeVars, adVars, gateVars, logVars, reqVars, runVars, envVars>>
    \/ DoLabelScore /\ UNCHANGED <<pipeVars, adVars, gateVars, logVars, reqVars, runVars, envVars>>

SpecRoundTrip == InitRoundTrip /\ [][NextRoundTrip]_vars

\* an OT2Env, reset and stepped
InitEnv == PipeIdle /\ AdIdle /\ GateIdle /\ LogIdle /\ FnIdle /\ ReqIdle /\ RunIdle /\ EnvInit

NextEnv ==
    \/ EnvReset /\ UNCHANGED <<pipeVars, adVars, gateVars, logVars, fnVars, reqVars, runVars>>
    \/ EnvStep /\ UNCHANGED <<pipeVars, adVars, gateVars, logVars, fnVars, reqVars, runVars>>

SpecEnv == InitEnv /\ [][NextEnv]_vars

-----------------------------------------------------------------------------
(* Claims about predict_any (specification Spec)                            *)

\* the request prefers Adapter A: do_classify and (do_classify_ext or do_intensity)
PrefersA == args.do_classify /\ (args.do_classify_ext \/ args.do_intensity)

\* the segments the loop has classified by a call of the adapter
ClassifiedBy(adapter) == {calls[j].seg : j \in {i \in 1..Len(calls) : calls[i].adapter = adapter}}

\* the positions in the call log where Adapter A raised
AFailures == {j \in 1..Len(calls) : calls[j].adapter = "A" /\ calls[j].raised}

\* C1: sticky fallback.  In a request that prefers Adapter A, once a call of Adapter
\* A has raised on a segment, the next call is Adapter B on that same segment, every
\* later call is a call of Adapter B, every segment from that one on that the loop
\* has finished was classified by Adapter B, and the flag stays set.
C1_StickyFallback ==
    PrefersA =>
        \A j \in AFailures :
            /\ j < Len(calls) /\ calls[j + 1] = Call(calls[j].seg, "B", FALSE)
            /\ \A m \in (j + 1)..Len(calls) : calls[m].adapter = "B"
            /\ \A k \in calls[j].seg..idx : k \in ClassifiedBy("B")
            /\ use_bert

\* C1 witness: Adapter A answered segment 1, raised on segment 2, and the request
\* finished a third segment.
C1_Witness ==
    /\ PrefersA /\ pc = "done" /\ idx >= 3
    /\ Len(calls) >= 2 /\ calls[1] = Call(1, "A", FALSE) /\ calls[2] = Call(2, "A", TRUE)

\* C2: cheap path.  In a request with do_classify and neither do_classify_ext nor
\* do_intensity, the calls made are exactly one call of Adapter B per finished
\* segment, in segment order, and Adapter A is never called.
C2_CheapPath ==
    (args.do_classify /\ ~args.do_classify_ext /\ ~args.do_intensity) =>
        /\ Len(calls) = idx
        /\ \A j \in 1..Len(calls) : calls[j] = Call(j, "B", FALSE)

\* C2 witness: a finished cheap-path request of three segments.
C2_Witness ==
    /\ args.do_classify /\ ~args.do_classify_ext /\ ~args.do_intensity
    /\ pc = "done" /\ idx >= 3 /\ Len(calls) >= 3

\* C3: once the segment list exists, no failure while classifying aborts the
\* request (stated as: predict_any never ends by an exception raised in the loop).
C3_NoAbortWhileClassifying == pc /= "abort_classifying"

\* the emotion column of the result rows written so far
Emotions == {csv[r][5] : r \in 2..Len(csv)}

\* C4: every emotion a classifier produced for a row belongs to the vocabulary of
\* the request's tier, or is a fallback value ("neutral", or the sentinel "nan").
C4_LabelsInVocabulary ==
    (pc /= "start" /\ args.do_classify) =>
        Emotions \subseteq
            (EMOTION_TIERS[TierOf(args.do_classify_ext, args.do_intensity)]
             \cup {"neutral", "nan"})

\* C8: when the request is done, the artifact is the header followed by one row
\* per segment, the k-th row being the row of the k-th segment (its start, end and
\* sentence), however each segment was classified.
C8_OneRowPerSegment ==
    pc = "done" =>
        /\ Len(csv) = 1 + Len(segments)
        /\ csv[1] = Headers(args.do_intensity)
        /\ \A k \in 1..Len(segments) :
              /\ csv[k + 1][1] = Fmt(segments[k].start)
              /\ csv[k + 1][2] = Fmt(segments[k].end)
              /\ csv[k + 1][3] = segments[k].text
        /\ summary.returned /\ summary.rows = 1 + Len(segments)

\* C8 witness: a finished request of three segments in which Adapter A classified
\* one segment, Adapter B another, and one segment got the sentinel "nan".
C8_Witness ==
    /\ pc = "done" /\ Len(segments) >= 3
    /\ ClassifiedBy("A") /= {} /\ ClassifiedBy("B") /= {}
    /\ "nan" \in Emotions

\* C12: a normalisation failure is fatal and early.  When a text-file or media
\* reference cannot be resolved, predict_any has raised with no classifier called,
\* no segment processed, nothing written to the artifact (not even its header) and
\* no summary returned.
C12_NormalizationFailsEarly ==
    (pc = "abort_normalizing" /\ args.kind \in {"textfile", "audio"}) =>
        /\ calls = <<>> /\ idx = 0 /\ segments = <<>>
        /\ csv = <<>>
        /\ ~summary.returned

\* C12 witness: a media reference that could not be resolved, in a request that
\* asked for classification.
C12_Witness ==
    /\ pc = "abort_normalizing" /\ args.kind = "audio"
    /\ args.do_classify /\ args.do_classify_ext

\* the fields of a row
Fields(row) == {row[i] : i \in 1..Len(row)}

\* C22: intensity is present only when the request asks for it.  With
\* do_intensity false neither adapter returns an intensity score and neither the
\* header nor any row of the artifact has an intensity_score / intensity_label
\* column; with do_intensity true the header and every row carry both columns.
C22_IntensityOnlyWhenAllowed ==
    csv /= <<>> =>
        /\ "intensity_score" \in Fields(csv[1]) <=> args.do_intensity
        /\ "intensity_label" \in Fields(csv[1]) <=> args.do_intensity
        /\ args.do_intensity => csv[1][6] = "intensity_score" /\ csv[1][7] = "intensity_label"
        /\ \A i \in 1..Len(csv) : Len(csv[i]) = IF args.do_intensity THEN 7 ELSE 5
        /\ ~args.do_intensity =>
              \A outs \in PipeLlamaOutcomes, resp \in PipeBertResponses :
                 /\ ~PredictEmotionLlama(outs, args.do_classify_ext, FALSE).intensity.some
                 /\ ~PredictEmotionBert(resp, args.do_classify_ext, FALSE).intensity.some

\* C22 witness: a request with do_intensity has returned, and the row of its
\* first segment carries a score and a label.
C22_Witness ==
    /\ pc = "done" /\ args.do_intensity /\ Len(csv) >= 2
    /\ csv[2][6] = "0.75" /\ csv[2][7] = "strong"

\* C23: the summary is created only after every row of the request is written;
\* it is appended to the history log exactly once for a request that completes
\* with persist true, never with persist false, and a request that aborts appends
\* nothing.
C23_SummaryAfterRowsLoggedOnce ==
    /\ summary.returned =>
          /\ idx = Len(segments) /\ Len(csv) = Len(segments) + 1
          /\ summary.rows = Len(csv)
    /\ Len(logged) = IF summary.returned /\ args.persist THEN 1 ELSE 0
    /\ hist = IF summary.returned /\ args.persist
              THEN [exists |-> TRUE,
                    rows |-> <<_HEADERS, <<"T1", args.kind, src_lang, "", "", "artifact.csv">>>>]
              ELSE NoFile
    /\ pc \in {"abort_normalizing", "abort_classifying"} =>
          ~summary.returned /\ logged = <<>> /\ hist = NoFile

\* C23 witness: a request of two segments or more with persist true has returned
\* and the history holds its one row under the header.
C23_Witness ==
    /\ pc = "done" /\ args.persist /\ Len(segments) >= 2
    /\ Len(logged) = 1 /\ Len(hist.rows) = 2

\* C24: with do_classify false neither adapter is invoked for any segment and
\* every row carries the sentinel emotion "nan", whatever do_classify_ext and
\* do_intensity are.
C24_NoClassifyNoCalls ==
    (pc /= "idle" /\ ~args.do_classify) =>
        /\ calls = <<>>
        /\ \A i \in 2..Len(csv) : csv[i][5] = "nan"

\* C24 witness: a request with do_classify false and both other flags true has
\* returned with two rows or more.
C24_Witness ==
    /\ pc = "done" /\ ~args.do_classify /\ args.do_classify_ext /\ args.do_intensity
    /\ Len(csv) >= 3 /\ calls = <<>> /\ csv[2][5] = "nan"

-----------------------------------------------------------------------------
(* Claims about the adapters (specification SpecAdapters)                   *)

AdDone(fn) == ad_out.done /\ ad_in.fn = fn

\* the vocabulary of the tier the call asked for
AdAllowed == EMOTION_TIERS[TierOf(ad_in.classify_ext, ad_in.do_intensity)]

\* the reply the chat backend gave: that of the last model (the models before it,
\* if any, failed)
AdReply == ad_in.outs[Len(ad_in.outs)]

\* C5: whatever the chat backend replies and whatever the tier, the label
\* predict_emotion_llama returns is in the tier's vocabulary or is "neutral"; for a
\* reply "Answer: <word>" it is the lowercased word when the tier has it and
\* "neutral" when it has not.
C5_LlamaLabelInTier ==
    (AdDone("llama") /\ ~ad_out.r.raised) =>
        /\ ad_out.r.emo \in AdAllowed \cup {"neutral"}
        /\ (Len(AdReply) >= 2 /\ AdReply[1] = "Answer:" /\ Letters(AdReply[2]) /= "") =>
              ad_out.r.emo = IF Letters(AdReply[2]) \in AdAllowed
                             THEN Letters(AdReply[2]) ELSE "neutral"

\* C5 witness: the reply "Answer: love" on a tier without "love" came back as
\* "neutral".
C5_Witness ==
    /\ AdDone("llama") /\ ~ad_out.r.raised
    /\ AdReply = <<"Answer:", "love">> /\ "love" \notin AdAllowed
    /\ ad_out.r.emo = "neutral"

\* an outcome of the scoring call that is a failure: the call or the parsing
\* raises, the prediction field is missing or no number, or the number is no class
BertFailed(resp) ==
    \/ resp.kind \notin {"dict", "strdict"}
    \/ IntRaises(PredsOf(resp))
    \/ PredsOf(resp).n \notin 0..27

\* C6: on every failure of the scoring call predict_emotion_bert returns the
\* sentinel "nan" with no intensity, and raises nothing.
C6_BertSentinelOnFailure ==
    (AdDone("bert") /\ BertFailed(ad_in.resp)) =>
        /\ ~ad_out.r.raised
        /\ ad_out.r.emo = "nan"
        /\ ~ad_out.r.intensity.some

\* the models that answer, among those configured
Answering == {m \in Models : ad_in.outs[m] /= Fail}

\* C7: _call_llama asks the models in their configured order, stops at the first
\* one that answers and returns its reply, and raises exactly when none answers
\* (having asked them all).
C7_CallLlamaOrder ==
    AdDone("_call_llama") =>
        /\ \A j \in 1..Len(ad_out.r.tried) : ad_out.r.tried[j] = j
        /\ ad_out.r.raised <=> Answering = {}
        /\ ad_out.r.raised => Len(ad_out.r.tried) = 1 + NumFallbacks
        /\ ~ad_out.r.raised =>
              /\ Len(ad_out.r.tried) = Min(Answering)
              /\ ad_out.r.reply = ad_in.outs[Min(Answering)]

\* C7 witness: the primary model failed, the first fallback answered, and a later
\* fallback that would have answered something else was not asked.
C7_Witness ==
    /\ AdDone("_call_llama")
    /\ ad_in.outs[1] = Fail /\ ad_in.outs[2] = <<"bogus">>
    /\ ad_in.outs[1 + NumFallbacks] = <<"Answer:", "Joy">>
    /\ ad_out.r.tried = <<1, 2>> /\ ad_out.r.reply = <<"bogus">>

\* the ordinal table as documented, in hundredths
OrdinalTable == [neutral |-> 0, mild |-> 25, moderate |-> 50, strong |-> 75, intense |-> 100]

\* C19: the ordinal table of Adapter A.  When intensity is asked for and the reply
\* holds "Intensity: <word>", the score returned is 0.0, 0.25, 0.5, 0.75, 1.0 for
\* the word neutral, mild, moderate, strong, intense in any case, and 0.0 for any
\* other word (the word being that of the first "Intensity:" of the reply).
C19_IntensityOrdinal ==
    (/\ AdDone("llama") /\ ~ad_out.r.raised /\ ad_in.do_intensity
     /\ MatchAt(AdReply, "intensity:") /= {}) =>
        LET w == Lower(AdReply[Min(MatchAt(AdReply, "intensity:")) + 1])
        IN  /\ ad_out.r.intensity.some
            /\ ad_out.r.intensity.v =
                  IF w \in DOMAIN OrdinalTable THEN OrdinalTable[w] ELSE 0

\* C19 witness: the reply "Answer: Joy Intensity: MODERATE" was scored 0.5.
C19_Witness ==
    /\ AdDone("llama") /\ ad_in.do_intensity
    /\ AdReply = <<"Answer:", "Joy", "Intensity:", "MODERATE">>
    /\ ad_out.r.intensity = Some(50)

\* the class indices of the scoring endpoint's 28 classes
ClassIndices == 0..27

\* the labels Adapter B gives on the basic tier, over all class indices
BasicBuckets == {BasicOf(LabelOfIndex(i)) : i \in ClassIndices}

\* C21: for every class index 0..27 the scoring endpoint returns, Adapter B on
\* the basic tier (classify_ext false, do_intensity false) returns one of exactly
\* 7 coarse labels, each of them a member of BASIC_LABELS.
C21_BasicBucketsInVocabulary ==
    (/\ AdDone("bert") /\ ~ad_in.classify_ext /\ ~ad_in.do_intensity
     /\ ~BertFailed(ad_in.resp)) =>
        /\ ad_out.r.emo \in BasicBuckets
        /\ Cardinality(BasicBuckets) = 7
        /\ ad_out.r.emo \in BASIC_LABELS

-----------------------------------------------------------------------------
(* Claims about enforce (specification SpecGate)                            *)

\* the caps the plans are documented with, in seconds
DocumentedCap == [basic |-> 600, plus |-> 2700, pro |-> 14400]

\* C9: enforce rejects exactly the requests whose duration_sec is present and
\* above the plan's cap of 600, 2700 or 14400 seconds.
C9_RejectsExactlyOverCap ==
    g_out.status \in {"ok", "quota"} =>
        (g_out.status = "quota" <=>
            /\ "duration_sec" \in DOMAIN g_payload
            /\ g_payload["duration_sec"] > DocumentedCap[g_plan])

\* C9 witness: a request whose duration equals the cap was allowed.
C9_Witness ==
    /\ g_out.status = "ok"
    /\ "duration_sec" \in DOMAIN g_payload
    /\ g_payload["duration_sec"] = DocumentedCap[g_plan]

\* the payloads that differ from p at most in the client toggles
ToggleVariants(p) ==
    {Update(PopKeys(p, ClientToggles), t) :
        t \in UNION {[K -> BOOLEAN] : K \in SUBSET ClientToggles}}

FlagKeys == {"model", "do_translate", "do_classify", "do_classify_ext", "do_intensity"}

\* C10: in what enforce returns, the model and the four do_ flags are those of the
\* plan's rule, no client toggle is left, and any payload that differs only in the
\* client toggles gets the same flags.
C10_TogglesNeverTrusted ==
    g_out.status = "ok" =>
        /\ g_out.payload["model"] = RULES[g_plan].model
        /\ g_out.payload["do_translate"] = RULES[g_plan].translate
        /\ g_out.payload["do_classify"] = RULES[g_plan].classify
        /\ g_out.payload["do_classify_ext"] = RULES[g_plan].classify_ext
        /\ g_out.payload["do_intensity"] = RULES[g_plan].intensity
        /\ ClientToggles \cap DOMAIN g_out.payload = {}
        /\ \A q \in ToggleVariants(g_payload) :
              LET o == Enforce(q, g_plan)
              IN  /\ o.status = "ok"
                  /\ \A k \in FlagKeys : o.payload[k] = g_out.payload[k]

\* C10 witness: a client on the basic plan asked for intensity and extended labels
\* and got neither.
C10_Witness ==
    /\ g_out.status = "ok" /\ g_plan = "basic"
    /\ {"intensity", "classify_ext"} \subseteq DOMAIN g_payload
    /\ g_payload["intensity"] /\ g_payload["classify_ext"]
    /\ ~g_out.payload["do_intensity"] /\ ~g_out.payload["do_classify_ext"]

-----------------------------------------------------------------------------
(* Claims about the entry points (specification SpecEntry)                  *)

C27_NoQuotaOnEntryPaths ==
    /\ "duration_sec" \notin DOMAIN g_payload
    /\ g_out.status \in {"pending", "ok"}
    /\ g_out.status = "ok" =>
          /\ MayCallPredict(g_out.status)
          /\ BindArgs(g_out.payload).pc = "start"
    /\ pc \notin {"abort_call"}
    /\ \A pl \in Plans : Enforce(g_payload, pl).status = "ok"

\* C27 witness: a request of the CLI on the basic plan passed enforce and
\* predict_any ran to its end.
C27_Witness ==
    /\ DOMAIN g_payload = {"src"} /\ g_plan = "basic" /\ g_out.status = "ok"
    /\ pc = "done" /\ summary.returned

\* C28: plan and label tier agree.  For each plan the flags enforce produces make
\* the classifier derive the tier of that name (pro if do_intensity, else plus if
\* do_classify_ext, else basic); on plan basic Adapter A is never invoked, and on
\* plus and pro Adapter A is the first backend tried.
C28_PlanAndTierAgree ==
    /\ g_out.status = "ok" =>
          TierOf(g_out.payload["do_classify_ext"], g_out.payload["do_intensity"]) = g_plan
    /\ pc /= "idle" =>
          /\ TierOf(args.do_classify_ext, args.do_intensity) = g_plan
          /\ g_plan = "basic" => \A j \in 1..Len(calls) : calls[j].adapter = "B"
          /\ (g_plan /= "basic" /\ calls /= <<>>) =>
                calls[1].seg = 1 /\ calls[1].adapter = "A"
          /\ idx >= 1 => calls /= <<>>

\* C28 witness: a request on plan plus has returned, Adapter A having been asked
\* first; its flags give the tier plus.
C28_Witness ==
    /\ g_plan = "plus" /\ pc = "done" /\ calls /= <<>> /\ calls[1].adapter = "A"
    /\ args.do_classify_ext /\ ~args.do_intensity

-----------------------------------------------------------------------------
(* Claims about the history log (specifications SpecLog, SpecLogRace)       *)

\* C13: the history log is append-only.  After any sequence of log_inference calls
\* on a file that was missing or empty, the file is the header row, written once
\* and first, followed by exactly one row per call, the i-th row being the row of
\* the i-th call: every call added one row at the end and left the rows before it
\* as they were and where they were.
C13_HistoryAppendOnly ==
    /\ logged = <<>> => hist.rows = <<>>
    /\ logged /= <<>> =>
          /\ hist.exists
          /\ Len(hist.rows) = 1 + Len(logged)
          /\ hist.rows[1] = _HEADERS
          /\ \A i \in 1..Len(logged) :
                /\ hist.rows[i + 1] =
                      HistRow(logged[i].input, logged[i].summary, logged[i].now)
                /\ hist.rows[i + 1] /= _HEADERS

\* C13 witness: three calls were made, the first on a missing file, the second
\* with an empty summary.
C13_Witness ==
    /\ Len(logged) = 3 /\ Len(hist.rows) = 4
    /\ logged[2].summary = <<>>
    /\ hist.rows[2][2] = "first" /\ hist.rows[3][2] = "second"

\* every call of log_inference that was started has returned
AllReturned == \A w \in Writers : writers[w].pc = "done"

\* C14: appends made at the same time are atomic per call.  Whatever the
\* interleaving of two calls of log_inference (both may be the first call on a new
\* file), once both have returned the file is a single header row, first,
\* followed by one intact row per call, in some order.
C14_ConcurrentAppendsAtomic ==
    AllReturned =>
        /\ Len(hist.rows) = 1 + Len(logged)
        /\ hist.rows[1] = _HEADERS
        /\ \A i \in 2..Len(hist.rows) : hist.rows[i] /= _HEADERS
        /\ \A j \in 1..Len(logged) :
              \E i \in 2..Len(hist.rows) :
                  hist.rows[i] = HistRow(logged[j].input, logged[j].summary,
                                         logged[j].now)

-----------------------------------------------------------------------------
(* Claims about the helpers of pipeline.py                                  *)

\* C17: the artifact name is built from a sanitized stem.  For every reference (a
\* URL with a video id, a URL without one, a file path, raw text) the stem
\* _make_safe_stem returns is not empty and holds only letters, digits, "_" and
\* "-"; when the reference has no video id it is the stem of the reference's last
\* path component with every other character replaced by "_".
C17_SafeStem ==
    (fn_in.fn = "_make_safe_stem" /\ fn_out.done) =>
        /\ fn_out.r /= <<>>
        /\ \A i \in 1..Len(fn_out.r) : fn_out.r[i] \in WordChars
        /\ (QsValues(fn_in.arg.query, "v") = <<>> /\ StemOf(fn_in.arg.path) /= <<>>) =>
              /\ Len(fn_out.r) = Len(StemOf(fn_in.arg.path))
              /\ \A i \in 1..Len(fn_out.r) :
                    fn_out.r[i] = IF StemOf(fn_in.arg.path)[i] \in WordChars
                                  THEN StemOf(fn_in.arg.path)[i] ELSE "_"

\* where the lines of a content start: at its first character and after every
\* line break but a final one
LineStarts(c) == {1} \cup {j + 1 : j \in {i \in 1..(Len(c) - 1) : c[i] = "\n"}}

\* the characters from position a up to the next one of stops, or to the end
UpTo(c, a, stops) ==
    LET J == {j \in a..Len(c) : c[j] \in stops}
    IN  SubSeq(c, a, IF J = {} THEN Len(c) ELSE Min(J) - 1)

\* a text without the white space around it
Trimmed(s) ==
    LET I == {i \in 1..Len(s) : s[i] \notin WhiteSpace}
    IN  IF I = {} THEN <<>> ELSE SubSeq(s, Min(I), Max(I))

\* the k-th smallest number of S
Nth(S, k) == CHOOSE x \in S : Cardinality({y \in S : y < x}) = k - 1

\* a text forced to end with terminal punctuation
Forced(s) == IF s[Len(s)] \in {".", "!", "?"} THEN s ELSE Append(s, ".")

\* the texts C18 names for a text file: its non-empty lines (for CSV the non-blank
\* first columns of the lines after the first), trimmed, in file order; when
\* there is none, the trimmed content if the file has any
NamedTexts(f) ==
    LET c      == f.content
        starts == IF f.suffix = ".txt" THEN LineStarts(c) ELSE LineStarts(c) \ {1}
        stops  == IF f.suffix = ".txt" THEN {"\n"} ELSE {",", "\n"}
        good   == {a \in starts : Trimmed(UpTo(c, a, stops)) /= <<>>}
    IN  IF good /= {}
        THEN [k \in 1..Cardinality(good) |-> Trimmed(UpTo(c, Nth(good, k), stops))]
        ELSE IF Trimmed(c) /= <<>> THEN <<Trimmed(c)>> ELSE <<>>

\* C18: the segments of a text file.  There is one segment per non-empty line (for
\* CSV: per row after the header row whose first column is not blank, holding that
\* column), in file order, each trimmed and ending with ".", "!" or "?", a "."
\* being appended to a text that lacks one; a file with no such line but with
\* content gives one segment, its trimmed content, ended the same way.
C18_TextFileSegments ==
    (fn_in.fn = "text_file" /\ fn_out.done) =>
        /\ Len(fn_out.r) = Len(NamedTexts(fn_in.arg))
        /\ \A k \in 1..Len(fn_out.r) :
              /\ fn_out.r[k] = Forced(NamedTexts(fn_in.arg)[k])
              /\ fn_out.r[k][Len(fn_out.r[k])] \in {".", "!", "?"}

\* C18 witness: a CSV file with a header row and two data rows gave two segments,
\* the first with "." appended, the second left with its "?".
C18_Witness ==
    /\ fn_in.fn = "text_file" /\ fn_out.done /\ fn_in.arg.suffix = ".csv"
    /\ fn_in.arg.content = <<"a", "\n", "a", "\n", "?">>
    /\ fn_out.r = << <<"a", ".">>, <<"?">> >>

\* the buckets as documented: a label for the scores from lo up to, not
\* including, hi (hundredths)
Buckets ==
    {[label |-> "neutral", lo |-> 0, hi |-> 15], [label |-> "mild", lo |-> 15, hi |-> 40],
     [label |-> "moderate", lo |-> 40, hi |-> 70], [label |-> "strong", lo |-> 70, hi |-> 90],
     [label |-> "intense", lo |-> 90, hi |-> 101]}

BucketsOf(v) == {b \in Buckets : b.lo <= v /\ v < b.hi}

\* C20: the intensity label is a function of the score with fixed thresholds.  A
\* score below 0.15 is labelled neutral, below 0.4 mild, below 0.7 moderate, below
\* 0.9 strong, any other intense; a score equal to a threshold gets the label of
\* the higher bucket; every score lies in exactly one bucket and gets its label.
C20_IntensityLabelBuckets ==
    (/\ fn_in.fn = "label" /\ fn_out.done
     /\ fn_in.arg.do_intensity /\ fn_in.arg.score.some) =>
        /\ Cardinality(BucketsOf(fn_in.arg.score.v)) = 1
        /\ \A b \in BucketsOf(fn_in.arg.score.v) : fn_out.r = b.label

\* C20 witness: the score 0.15, equal to the first threshold, was labelled mild.
C20_Witness ==
    /\ fn_in.fn = "label" /\ fn_out.done /\ fn_in.arg.do_intensity
    /\ fn_in.arg.score = Some(15) /\ fn_out.r = "mild"


-----------------------------------------------------------------------------
(* Claims about two requests in one process (specification SpecTwo)         *)

\* C15: a request changes no process-wide state that another request, later or
\* at the same time, reads.  The Whisper model that transcribed a request's media
\* input is the model that request named, and the artifact of a request that has
\* returned holds what that request wrote, whatever the other request does.
C15_NoSharedMutableState ==
    \A r \in ReqIds :
        /\ (reqs[r].src.kind = "audio" /\ reqs[r].pc \in {"open", "rows", "returned"})
              => reqs[r].used = reqs[r].model
        /\ reqs[r].pc = "returned" => files[CsvPath(reqs[r])].rows = reqs[r].wrote


-----------------------------------------------------------------------------
(* Claims about predict_any run twice (specification SpecTwice)             *)

\* s is what t starts with
IsPrefix(s, t) == Len(s) <= Len(t) /\ s = SubSeq(t, 1, Len(s))

\* C16: idempotence with a request-local fallback flag.  Run a second time on
\* the same segments with stubs that behave the same, predict_any writes the same
\* rows in the same order: the second artifact is identical to the first.  The
\* sticky-fallback flag is cleared when the second run starts, whatever the first
\* run left, and the second run asks the same backends as the first.
C16_Idempotent ==
    prev.ran =>
        /\ IsPrefix(csv, prev.csv) /\ IsPrefix(calls, prev.calls)
        /\ idx = 0 => ~use_bert
        /\ pc = "done" => csv = prev.csv /\ calls = prev.calls

\* C16 witness: the first run fell back from Adapter A after its first segment;
\* the second run has returned, having asked Adapter A first for segment 1.
C16_Witness ==
    /\ prev.ran /\ pc = "done" /\ prev.use_bert
    /\ Len(csv) >= 3
    /\ prev.calls[1] = Call(1, "A", FALSE)
    /\ calls[1] = Call(1, "A", FALSE)


\* the segments whose row holds what Adapter A / Adapter B answered
AnsweredByA == {c.seg : c \in {calls[j] : j \in 1..Len(calls)} \cap {Call(k, "A", FALSE) : k \in 1..idx}}
AnsweredByB == ClassifiedBy("B")

\* what Adapter A returned as score for segment k, as the row prints it
ScoreOfA(k) ==
    LET a == PredictEmotionLlama(stubs[k].outs, args.do_classify_ext, args.do_intensity)
    IN  IF a.intensity.some THEN FmtScore(a.intensity.v) ELSE ""

\* C25: in a request with do_intensity true every row classified by Adapter B
\* (the segment Adapter A failed on and all segments after it) has an empty
\* intensity_score and an empty intensity_label, the rows classified by Adapter A
\* before the failure keep the score Adapter A returned, and every row has as
\* many fields as the header.
C25_FallbackRowsHaveNoIntensity ==
    (args.do_intensity /\ csv /= <<>>) =>
        /\ \A k \in AnsweredByB : csv[k + 1][6] = "" /\ csv[k + 1][7] = ""
        /\ \A k \in AnsweredByA :
              /\ csv[k + 1][6] = ScoreOfA(k)
              /\ csv[k + 1][7] = "" <=> ScoreOfA(k) = ""
        /\ \A i \in 1..Len(csv) : Len(csv[i]) = Len(csv[1])

\* C25 witness: Adapter A answered segment 1 with a score and failed on segment
\* 2; the request returned with the score in row 1 and none in rows 2 and 3.
C25_Witness ==
    /\ args.do_intensity /\ pc = "done" /\ idx >= 3
    /\ 1 \in AnsweredByA /\ {2, 3} \subseteq AnsweredByB
    /\ csv[2][6] = "0.75" /\ csv[3][6] = "" /\ csv[4][6] = ""


-----------------------------------------------------------------------------
(* Claims about the intensity word and its label (specification SpecRoundTrip) *)

\* the word the reply rates the intensity with: what follows its first "Intensity:"
RatedWord == fn_in.arg.reply[Min(MatchAt(fn_in.arg.reply, "intensity:")) + 1]

\* C29: intensity word round trip.  For each of the five ordinal words neutral,
\* mild, moderate, strong, intense, the label predict_any derives from the score
\* Adapter A assigns to the word is the word again: the label written to the
\* artifact equals the word the backend replied.
C29_IntensityRoundTrip ==
    (/\ fn_in.fn = "intensity" /\ fn_out.r.stage = "labelled" /\ fn_in.arg.do_intensity
     /\ RatedWord \in OrdinalWords) =>
        fn_out.r.label = RatedWord

\* C29 witness: the reply rated the sentence "strong", and the label is "strong".
C29_Witness ==
    /\ fn_in.fn = "intensity" /\ fn_out.r.stage = "labelled" /\ fn_in.arg.do_intensity
    /\ fn_in.arg.reply = <<"Answer:", "Joy", "Intensity:", "strong">>
    /\ fn_out.r.score = Some(75) /\ fn_out.r.label = "strong"


-----------------------------------------------------------------------------
(* Claims about OT2Env (specification SpecEnv)                              *)

\* C30: in OT2Env reset sets the step counter to 0 and each step adds exactly 1
\* to it; step reports truncated exactly when the maximum number of steps has
\* been reached, that is on the step that brings the number of steps taken in
\* the episode to max_steps; the episode info is attached only on a terminated or
\* truncated step.
C30_TruncatedAtMaxSteps ==
    /\ (goal_position = "sampled" /\ ~step_out.taken) => steps = 0
    /\ step_out.taken =>
          /\ steps = step_out.before + 1
          /\ steps <= max_steps => (step_out.truncated <=> steps = max_steps)
          /\ step_out.info => step_out.terminated \/ step_out.truncated

=============================================================================
